---------------------------- MODULE Spec2Model ----------------------------
(***************************************************************************)
(* A model of gimletd's event-driven release pipeline: the Gitops worker   *)
(* (worker package), its four event handlers, the policy engine and the    *)
(* GitOps repository it commits to.                                        *)
(*                                                                         *)
(* Strings that the code inspects character by character (branch names,    *)
(* tags, glob patterns) or that pass through templates (app names, values, *)
(* env names) are sequences of one-character strings; the empty Go string  *)
(* is << >>.  Strings that the code only compares for equality (ids,       *)
(* repository names, error texts) are TLA+ strings.                        *)
(***************************************************************************)
EXTENDS Integers, Sequences, FiniteSets, TLC

(***************************************************************************)
(* Bounds of the model.                                                    *)
(***************************************************************************)
\* events the API handlers enqueue in one behaviour
MaxEvents == 2
\* store errors injected in one behaviour (failed polls, failed status updates)
MaxStoreErrors == 1

\* the commits of a history before the step that is looked at
MaxHistory == 4

(***************************************************************************)
(* Strings and globs (github.com/gobwas/glob, no separators): '*' matches  *)
(* any run of characters, '?' one character, any other character itself.   *)
(* The model's alphabet holds '[' but not ']': a pattern with '[' is an    *)
(* unterminated character class, which glob.Compile rejects and            *)
(* glob.MustCompile turns into a panic.                                    *)
(***************************************************************************)
Empty == << >>

HasPrefix(s, c) == Len(s) > 0 /\ s[1] = c

StripFirst(s) == SubSeq(s, 2, Len(s))

GlobCompiles(p) == \A i \in 1..Len(p) : p[i] # "["

RECURSIVE GlobMatch(_, _)
GlobMatch(p, s) ==
    IF p = Empty THEN s = Empty
    ELSE IF Head(p) = "*"
         THEN GlobMatch(Tail(p), s) \/ (s # Empty /\ GlobMatch(p, Tail(s)))
    ELSE IF Head(p) = "?"
         THEN s # Empty /\ GlobMatch(Tail(p), Tail(s))
    ELSE s # Empty /\ Head(s) = Head(p) /\ GlobMatch(Tail(p), Tail(s))

(***************************************************************************)
(* The policy engine.  A nil policy or a nil *GitEvent is Nil.  The        *)
(* result is "true", "false" or "panic" (glob.MustCompile on a pattern     *)
(* that does not compile), decided in the order of the code's statements.  *)
(***************************************************************************)
Nil == "nil"

\* a nil *dx.Deploy and a nil *dx.Cleanup
NilDeploy == [IsNil |-> TRUE, Branch |-> Empty, Tag |-> Empty, Event |-> Nil]

NilCleanup == [IsNil |-> TRUE, AppToCleanup |-> Empty, Branch |-> Empty]

\* the tag block of deployTrigger: tag starts as deployPolicy.Branch, the
\* glob is compiled from the unstripped deployPolicy.Tag
deployTriggerTagBlock(artifactToCheck, deployPolicy) ==
    LET negate == HasPrefix(deployPolicy.Tag, "!")
        tag == IF negate THEN StripFirst(deployPolicy.Tag) ELSE deployPolicy.Branch
    IN  IF ~GlobCompiles(deployPolicy.Tag) THEN "panic"
        ELSE LET exactMatch == tag = artifactToCheck.Version.Tag
                 patternMatch == GlobMatch(deployPolicy.Tag, artifactToCheck.Version.Tag)
                 match == exactMatch \/ patternMatch
             IN  IF negate /\ match THEN "false"
                 ELSE IF ~negate /\ ~match THEN "false"
                 ELSE "true"

\* a variant of the branch block that compiles the pattern with its "!"
deployTriggerBranchBlockUnstripped(artifactToCheck, deployPolicy) ==
    LET negate == HasPrefix(deployPolicy.Branch, "!")
        branch == IF negate THEN StripFirst(deployPolicy.Branch) ELSE deployPolicy.Branch
    IN  IF ~GlobCompiles(branch) THEN "panic"
        ELSE LET exactMatch == branch = artifactToCheck.Version.Branch
                 patternMatch == GlobMatch(deployPolicy.Branch, artifactToCheck.Version.Branch)
                 match == exactMatch \/ patternMatch
             IN  IF negate /\ match THEN "false"
                 ELSE IF ~negate /\ ~match THEN "false"
                 ELSE "true"

\* the branch block of deployTrigger
deployTriggerBranchBlock(artifactToCheck, deployPolicy) ==
    LET negate == HasPrefix(deployPolicy.Branch, "!")
        branch == IF negate THEN StripFirst(deployPolicy.Branch) ELSE deployPolicy.Branch
    IN  IF ~GlobCompiles(branch) THEN "panic"
        ELSE LET exactMatch == branch = artifactToCheck.Version.Branch
                 patternMatch == GlobMatch(branch, artifactToCheck.Version.Branch)
                 match == exactMatch \/ patternMatch
             IN  IF negate /\ match THEN "false"
                 ELSE IF ~negate /\ ~match THEN "false"
                 ELSE "true"

\* deployTrigger from the tag block on: the tag block, the branch block and
\* the comparison of the events
deployTriggerMatching(artifactToCheck, deployPolicy) ==
    LET t == IF deployPolicy.Tag # Empty
             THEN deployTriggerTagBlock(artifactToCheck, deployPolicy)
             ELSE "true"
    IN  IF t # "true" THEN t
        ELSE LET b == IF deployPolicy.Branch # Empty
                      THEN deployTriggerBranchBlock(artifactToCheck, deployPolicy)
                      ELSE "true"
             IN  IF b # "true" THEN b
                 ELSE IF deployPolicy.Event # Nil
                         /\ deployPolicy.Event # artifactToCheck.Version.Event
                      THEN "false"
                 ELSE "true"

\* a variant of deployTrigger without the check for a policy that sets nothing
deployTriggerWithoutUnsetCheck(artifactToCheck, deployPolicy) ==
    IF deployPolicy.IsNil THEN "false"
    ELSE IF deployPolicy.Branch # Empty /\ deployPolicy.Event \notin {"push", "pr"}
         THEN "false"
    ELSE IF deployPolicy.Tag # Empty /\ deployPolicy.Event # "tag"
         THEN "false"
    ELSE deployTriggerMatching(artifactToCheck, deployPolicy)

\* a variant of deployTrigger that accepts a branch policy without an event
deployTriggerWithoutEventKindCheck(artifactToCheck, deployPolicy) ==
    IF deployPolicy.IsNil THEN "false"
    ELSE IF deployPolicy.Branch = Empty /\ deployPolicy.Event = Nil /\ deployPolicy.Tag = Empty
         THEN "false"
    ELSE IF deployPolicy.Branch # Empty /\ deployPolicy.Event \notin {Nil, "push", "pr"}
         THEN "false"
    ELSE IF deployPolicy.Tag # Empty /\ deployPolicy.Event # "tag"
         THEN "false"
    ELSE deployTriggerMatching(artifactToCheck, deployPolicy)

deployTrigger(artifactToCheck, deployPolicy) ==
    IF deployPolicy.IsNil THEN "false"
    ELSE IF deployPolicy.Branch = Empty /\ deployPolicy.Event = Nil /\ deployPolicy.Tag = Empty
         THEN "false"
    ELSE IF deployPolicy.Branch # Empty /\ deployPolicy.Event \notin {"push", "pr"}
         THEN "false"
    ELSE IF deployPolicy.Tag # Empty /\ deployPolicy.Event # "tag"
         THEN "false"
    ELSE deployTriggerMatching(artifactToCheck, deployPolicy)

\* the parameter branch is overwritten by the stripped policy branch when the
\* policy is negated, and the glob is compiled from the unstripped policy branch
cleanupTrigger(branch, cleanupPolicy) ==
    IF cleanupPolicy.IsNil THEN "false"
    ELSE IF cleanupPolicy.Branch = Empty THEN "false"
    ELSE IF cleanupPolicy.AppToCleanup = Empty THEN "false"
    ELSE LET negate == HasPrefix(cleanupPolicy.Branch, "!")
             policyBranch == cleanupPolicy.Branch
             br == IF negate THEN StripFirst(cleanupPolicy.Branch) ELSE branch
         IN  IF ~GlobCompiles(policyBranch) THEN "panic"
             ELSE LET exactMatch == br = policyBranch
                      patternMatch == GlobMatch(policyBranch, br)
                      match == exactMatch \/ patternMatch
                  IN  IF negate /\ ~match THEN "true"
                      ELSE IF ~negate /\ match THEN "true"
                      ELSE "false"

(***************************************************************************)
(* Artifacts and manifests (dx package).                                   *)
(***************************************************************************)
\* Artifact.HasCleanupPolicy
HasCleanupPolicy(a) ==
    \E i \in 1..Len(a.Environments) : ~a.Environments[i].Cleanup.IsNil

\* the string-typed entries of one items map; a value is [IsString, Val]
StringEntries(values) ==
    LET ks == {k \in DOMAIN values : values[k].IsString}
    IN  [k \in ks |-> values[k].Val]

RECURSIVE OverlayItems(_, _)
OverlayItems(vars, items) ==
    IF items = << >> THEN vars
    ELSE OverlayItems(StringEntries(Head(items)) @@ vars, Tail(items))

\* a variant in which the context wins over the items
ArtifactVarsContextWins(a) == a.Context @@ OverlayItems(<< >>, a.Items)

\* Artifact.Vars: the context, overlaid by the string values of the items
ArtifactVars(a) == OverlayItems(a.Context, a.Items)

(***************************************************************************)
(* Templates (text/template over the YAML of the manifest).  A templated   *)
(* string is a sequence of characters and placeholder tokens.  BadToken is *)
(* a placeholder that calls a function the template set does not define:   *)
(* template.Parse fails on it.  A variable missing from the map prints as  *)
(* the literal <no value>.  FailToken calls sprig's fail: it parses and     *)
(* template.Execute fails on it.  Quote is a character of a substituted    *)
(* value that ends the YAML scalar it lands in: yaml.Unmarshal fails on    *)
(* the templated text.                                                     *)
(***************************************************************************)
BranchToken == "{{ .BRANCH }}"

TagToken == "{{ .TAG }}"

BadToken == "{{ .BRANCH | nofunc }}"

FailToken == "{{ fail .BRANCH }}"

Quote == "'"

NoValue == <<"<no value>">>

TokenVar(t) == IF t = BranchToken THEN "BRANCH" ELSE "TAG"

TemplateParses(s) == \A i \in 1..Len(s) : s[i] # BadToken

TemplateExecutes(s) == \A i \in 1..Len(s) : s[i] # FailToken

YamlParses(s) == \A i \in 1..Len(s) : s[i] # Quote

RECURSIVE ResolveString(_, _)
ResolveString(s, vars) ==
    IF s = << >> THEN << >>
    ELSE LET t == Head(s)
             out == IF t \in {BranchToken, TagToken}
                    THEN IF TokenVar(t) \in DOMAIN vars THEN vars[TokenVar(t)] ELSE NoValue
                    ELSE <<t>>
         IN  out \o ResolveString(Tail(s), vars)

\* Manifest.ResolveVars: [err, m], m the manifest as the call leaves it.
\* On a template error the function returns before Cleanup is restored; on a
\* YAML error Cleanup is restored and the other fields are as they were.
ManifestResolveVars(m, vars) ==
    IF ~(TemplateParses(m.App) /\ TemplateParses(m.Values))
    THEN [err |-> "template: function not defined",
          m |-> [m EXCEPT !.Cleanup = NilCleanup]]
    ELSE IF ~(TemplateExecutes(m.App) /\ TemplateExecutes(m.Values))
    THEN [err |-> "template: error calling fail",
          m |-> [m EXCEPT !.Cleanup = NilCleanup]]
    ELSE LET app == ResolveString(m.App, vars)
             values == ResolveString(m.Values, vars)
         IN  IF ~(YamlParses(app) /\ YamlParses(values))
             THEN [err |-> "yaml: did not find expected key", m |-> m]
             ELSE [err |-> Nil, m |-> [m EXCEPT !.App = app, !.Values = values]]

\* Cleanup.ResolveVars: [err, c]
CleanupResolveVars(c, vars) ==
    IF ~TemplateParses(c.AppToCleanup)
    THEN [err |-> "template: function not defined", c |-> c]
    ELSE [err |-> Nil,
          c |-> [c EXCEPT !.AppToCleanup = ResolveString(c.AppToCleanup, vars)]]

(***************************************************************************)
(* The GitOps repository.  A history is a sequence of commits, oldest      *)
(* first; every commit of the pipeline touches one directory <env>/<app>   *)
(* and records that directory's files before and after (<< >> when the     *)
(* directory does not exist).  Sha 0 stands for the empty ref "".          *)
(***************************************************************************)
NoSha == 0

Head2(h) == IF h = << >> THEN NoSha ELSE h[Len(h)].sha

\* the content of <env>/<app>/ at the head of history h
RECURSIVE DirAt(_, _, _)
DirAt(h, env, app) ==
    IF h = << >> THEN << >>
    ELSE LET c == h[Len(h)]
         IN  IF c.env = env /\ c.app = app THEN c.after
             ELSE DirAt(SubSeq(h, 1, Len(h) - 1), env, app)

NewCommit(sha, kind, env, app, before, after, reverts) ==
    [sha |-> sha, kind |-> kind, env |-> env, app |-> app,
     before |-> before, after |-> after, reverts |-> reverts]

\* helm.HelmTemplate, kustomize.ApplyPatches and helm.SplitHelmOutput: the
\* files rendered for a manifest, a function of its resolved values
RenderFiles(m) == <<m.Values>>

\* nativeGit.CommitFilesToGit: replace <env>/<app>/ by the files; no commit
\* and the empty ref when nothing changed
CommitFilesToGit(h, files, env, app, sha) ==
    IF DirAt(h, env, app) = files THEN [h |-> h, sha |-> NoSha]
    ELSE [h |-> Append(h, NewCommit(sha, "deploy", env, app, DirAt(h, env, app), files, NoSha)),
          sha |-> sha]

(***************************************************************************)
(* backoff.Retry(operation, backoff.WithMaxRetries(b, PushMaxRetries)):    *)
(* the operation is run, and run again after every failure until           *)
(* NextBackOff has been called PushMaxRetries times.  fails is the number  *)
(* of attempts that fail before one would succeed.                         *)
(***************************************************************************)
PushMaxRetries == 5

\* a variant of Retry that gives up one failure later
RECURSIVE RetryOnceMore(_, _)
RetryOnceMore(fails, numTries) ==
    IF fails = 0 THEN [ok |-> TRUE, attempts |-> numTries + 1]
    ELSE IF PushMaxRetries < numTries THEN [ok |-> FALSE, attempts |-> numTries + 1]
    ELSE RetryOnceMore(fails - 1, numTries + 1)

\* Retry(fails, 0): the outcome when the first fails attempts fail, and the
\* number of attempts made
RECURSIVE Retry(_, _)
Retry(fails, numTries) ==
    IF fails = 0 THEN [ok |-> TRUE, attempts |-> numTries + 1]
    ELSE IF PushMaxRetries <= numTries THEN [ok |-> FALSE, attempts |-> numTries + 1]
    ELSE Retry(fails - 1, numTries + 1)

\* the numbers of failing push attempts injected into one push: none, one,
\* as many as there are retries, and one more
PushFailures == {0, 1, PushMaxRetries, PushMaxRetries + 1}

(***************************************************************************)
(* The events the API handlers enqueue.                                    *)
(***************************************************************************)
main == <<"m", "a", "i", "n">>

dev == <<"d", "e", "v">>

Policy(branch, tag, event) ==
    [IsNil |-> FALSE, Branch |-> branch, Tag |-> tag, Event |-> event]

CleanupPolicy(app, branch) ==
    [IsNil |-> FALSE, AppToCleanup |-> app, Branch |-> branch]

Manifest(app, env, deploy, cleanup, chart, values) ==
    [App |-> app, Env |-> env, Deploy |-> deploy, Cleanup |-> cleanup,
     Chart |-> chart, Values |-> values, StrategicMergePatches |-> Empty]

\* chart names: a helm repository chart, an HTTPS git chart, an SSH git chart
PlainChart == "onechart"

HttpsGitChart == "https://github.com/org/chart.git"

SshGitChart == "git@github.com:org/chart.git"

ChartHasGitAtPrefix(name) == name = SshGitChart

ChartContainsDotGit(name) == name \in {HttpsGitChart, SshGitChart}

Version(repo, branch, tag, event) ==
    [RepositoryName |-> repo, Branch |-> branch, Tag |-> tag, Event |-> event]

NoArtifact ==
    [ID |-> "", Version |-> Version("", Empty, Empty, "push"), Context |-> << >>,
     Environments |-> << >>, Items |-> << >>]

\* three environments, two of them with a matching deploy policy
ArtifactA1 ==
    [ID |-> "A1", Version |-> Version("r1", main, Empty, "push"),
     Context |-> [TAG |-> <<"1">>],
     Environments |->
        << Manifest(<<"a">>, <<"s">>, Policy(main, Empty, "push"), NilCleanup,
                    PlainChart, <<"i", TagToken>>),
           Manifest(<<"a">>, <<"p">>, Policy(<<"!">> \o main, Empty, "push"), NilCleanup,
                    SshGitChart, <<"i", TagToken>>),
           Manifest(<<"b">>, <<"s">>, Policy(<<"m", "*">>, Empty, "push"), NilCleanup,
                    PlainChart, <<"j">>) >>,
     Items |-> << [CI |-> [IsString |-> TRUE, Val |-> <<"x">>]] >>]

\* a cleanup policy; the second matching environment has a template that does not parse
ArtifactA2 ==
    [ID |-> "A2", Version |-> Version("r2", dev, Empty, "push"),
     Context |-> [TAG |-> <<"2">>],
     Environments |->
        << Manifest(<<"a">>, <<"s">>, Policy(<<"!">> \o main, Empty, "push"),
                    CleanupPolicy(<<"a">>, <<"d", "*">>), HttpsGitChart, <<"i", TagToken>>),
           Manifest(<<"b", BadToken>>, <<"s">>, Policy(dev, Empty, "push"), NilCleanup,
                    PlainChart, <<"j">>) >>,
     Items |-> << >>]

\* the second policy is a pattern that does not compile
ArtifactA3 ==
    [ID |-> "A3", Version |-> Version("r1", main, <<"v", "1">>, "tag"),
     Context |-> << >>,
     Environments |->
        << Manifest(<<"a">>, <<"s">>, Policy(Empty, <<"v", "*">>, "tag"), NilCleanup,
                    PlainChart, <<"k">>),
           Manifest(<<"b">>, <<"s">>, Policy(Empty, <<"[">>, "tag"), NilCleanup,
                    PlainChart, <<"k">>) >>,
     Items |-> << >>]

ReleaseRequest(env, app, artifactID, triggeredBy) ==
    [Env |-> env, App |-> app, ArtifactID |-> artifactID, TriggeredBy |-> triggeredBy]

RollbackRequest(env, app, targetSHA, triggeredBy) ==
    [Env |-> env, App |-> app, TargetSHA |-> targetSHA, TriggeredBy |-> triggeredBy]

BranchDeletedEvent(repository, branch, manifests) ==
    [Repository |-> repository, Branch |-> branch, Manifests |-> manifests]

CleanupManifest(env, cleanup) ==
    Manifest(<<"a">>, env, NilDeploy, cleanup, PlainChart, <<"i">>)

Blob(body) == [ok |-> TRUE, body |-> body]

\* a blob that json.Unmarshal rejects for every type
Garbage == [ok |-> FALSE, body |-> 0]

NewEvent(type, blob) == [Type |-> type, Blob |-> blob]

EventCatalog ==
    << NewEvent("artifact", Blob(ArtifactA1)),
       NewEvent("artifact", Blob(ArtifactA2)),
       NewEvent("artifact", Blob(ArtifactA3)),
       NewEvent("artifact", Garbage),
       NewEvent("release", Blob(ReleaseRequest(<<"s">>, Empty, "A1", "alice"))),
       NewEvent("release", Blob(ReleaseRequest(<<"s">>, <<"b">>, "A1", "alice"))),
       NewEvent("release", Blob(ReleaseRequest(<<"p">>, Empty, "A1", "bob"))),
       NewEvent("release", Blob(ReleaseRequest(<<"s">>, Empty, "A9", "alice"))),
       NewEvent("release", Garbage),
       NewEvent("rollback", Blob(RollbackRequest(<<"s">>, <<"a">>, 1, "alice"))),
       NewEvent("rollback", Blob(RollbackRequest(<<"s">>, <<"a">>, 2, "alice"))),
       NewEvent("rollback", Garbage),
       NewEvent("branchDeleted",
                Blob(BranchDeletedEvent("r2", dev,
                        << CleanupManifest(<<"s">>, CleanupPolicy(<<"a">>, <<"d", "?", "v">>)),
                           CleanupManifest(<<"s">>, CleanupPolicy(<<BadToken>>, dev)) >>))),
       NewEvent("branchDeleted",
                Blob(BranchDeletedEvent("r2", dev,
                        << CleanupManifest(<<"s">>, NilCleanup),
                           CleanupManifest(<<"s">>, CleanupPolicy(<<"a">>, main)),
                           CleanupManifest(<<"p">>, CleanupPolicy(<<"a">>, <<"d", "*">>)) >>))),
       NewEvent("branchDeleted", Garbage) >>

(***************************************************************************)
(* The histories the GitOps repository may hold when the service starts.   *)
(***************************************************************************)
InitialHistories ==
    { << >>,
      << NewCommit(1, "deploy", <<"s">>, <<"a">>, << >>, << <<"x">> >>, NoSha),
         NewCommit(2, "deploy", <<"s">>, <<"b">>, << >>, << <<"j">> >>, NoSha),
         NewCommit(3, "deploy", <<"s">>, <<"a">>, << <<"x">> >>, << <<"y">> >>, NoSha),
         NewCommit(4, "deploy", <<"s">>, <<"a">>, << <<"y">> >>, << <<"i", "1">> >>, NoSha) >> }

(***************************************************************************)
(* State.                                                                  *)
(***************************************************************************)
VARIABLES
    events,                  \* the event store: rows in creation order, the ID is the index
    reposWithCleanupPolicy,  \* the persisted list of repositories with a cleanup policy
    remote,                  \* the history of the GitOps repository at its origin
    cache,                   \* how many commits of remote the cached clone holds
    invalidated,             \* GitopsRepoCache.Invalidate was called and no refresh ran since
    storeErrors,             \* store errors injected so far
    pc,                      \* where the worker goroutine is
    batch,                   \* the IDs UnprocessedEvents returned to the running loop
    bi,                      \* index into batch of the event being processed
    event,                   \* the *model.Event being processed
    loc,                     \* the locals of processEvent and of the running handler
    msgs,                    \* the messages the running processEvent has broadcast
    upd,                     \* the last updateEvent call of the running processEvent
    call,                    \* the steps of the running handler's last clone...AndPush
                             \* or rollback call
    runs                     \* per event, how often a handler was started for it

vars == <<events, reposWithCleanupPolicy, remote, cache, invalidated, storeErrors,
          pc, batch, bi, event, loc, msgs, upd, call, runs>>

storeVars == <<events, reposWithCleanupPolicy, storeErrors>>

repoVars == <<remote, cache, invalidated, call>>

\* model.Event statuses
StatusNew == "new"

StatusProcessed == "processed"

StatusError == "error"

\* events.Status values
Success == "Success"

Failure == "Failure"

NilHashes == [IsNil |-> TRUE, list |-> << >>]

NoEvent == [ID |-> 0, Type |-> "", Status |-> "", StatusDesc |-> "", GitopsHashes |-> NilHashes]

NilRollbackEvent ==
    [IsNil |-> TRUE, Status |-> "", StatusDesc |-> "", GitopsRefs |-> << >>]

NoLoc ==
    [idx |-> 0, artifact |-> NoArtifact, request |-> 0, returned |-> FALSE, err |-> Nil,
     gitopsEvents |-> << >>, deleteEvents |-> << >>, rollbackEvent |-> NilRollbackEvent]

NoUpdate == [called |-> FALSE, ok |-> FALSE]

NoCall == [kind |-> "", ops |-> << >>, attempts |-> 0, fails |-> 0, base |-> 0]

Init ==
    /\ events = << >>
    /\ reposWithCleanupPolicy = << >>
    /\ remote \in InitialHistories
    /\ cache = Len(remote)
    /\ invalidated = FALSE
    /\ storeErrors = 0
    /\ pc = "Run"
    /\ batch = << >>
    /\ bi = 0
    /\ event = NoEvent
    /\ loc = NoLoc
    /\ msgs = << >>
    /\ upd = NoUpdate
    /\ call = NoCall
    /\ runs = << >>

(***************************************************************************)
(* The collaborators of the worker.                                        *)
(***************************************************************************)
\* an API handler stores a new event.  A row stored while a handler runs is
\* first read by a later poll or Store.Artifact call, as one stored right
\* after the handler's step: the model stores rows between the worker's
\* handler calls only.  A panic ends the process, the API handlers with it.
Enqueue(i) ==
    /\ Len(events) < MaxEvents
    /\ pc \in {"Run", "loop"}
    /\ events' = Append(events, [Type |-> EventCatalog[i].Type, Blob |-> EventCatalog[i].Blob,
                                 Status |-> StatusNew, StatusDesc |-> "",
                                 GitopsHashes |-> NilHashes])
    /\ runs' = Append(runs, 0)
    /\ UNCHANGED <<reposWithCleanupPolicy, storeErrors, repoVars, pc, batch, bi, event, loc,
                   msgs, upd>>

\* GitopsRepoCache.Run: fetch and fast-forward the cached clone
RefreshCache ==
    /\ cache # Len(remote) \/ invalidated
    /\ cache' = Len(remote)
    /\ invalidated' = FALSE
    /\ UNCHANGED <<storeVars, remote, call, pc, batch, bi, event, loc, msgs, upd, runs>>

\* Store.UnprocessedEvents: the IDs of the rows with status new, oldest first
RECURSIVE UnprocessedFrom(_, _)
UnprocessedFrom(rows, i) ==
    IF i > Len(rows) THEN << >>
    ELSE (IF rows[i].Status = StatusNew THEN <<i>> ELSE << >>) \o UnprocessedFrom(rows, i + 1)

UnprocessedEvents(rows) == UnprocessedFrom(rows, 1)

(***************************************************************************)
(* GitopsWorker.Run.                                                       *)
(***************************************************************************)
\* the poll fails: log, sleep one second, poll again
RunPollError ==
    /\ pc = "Run"
    /\ storeErrors < MaxStoreErrors
    /\ storeErrors' = storeErrors + 1
    /\ UNCHANGED <<events, reposWithCleanupPolicy, repoVars, pc, batch, bi, event, loc, msgs,
                   upd, runs>>

\* the poll succeeds: the loop over the returned events starts
RunPoll ==
    /\ pc = "Run"
    /\ batch' = UnprocessedEvents(events)
    /\ bi' = 0
    /\ pc' = "loop"
    /\ UNCHANGED <<storeVars, repoVars, event, loc, msgs, upd, runs>>

\* a variant of the range loop that walks the polled events from the newest
NextEventNewestFirst(polled, done) == polled[Len(polled) - done]

\* the range loop over the polled events: the event after the first done ones
NextEvent(polled, done) == polled[done + 1]

HandlerOf(type) ==
    CASE type = "artifact" -> "processArtifactEvent"
      [] type = "release" -> "processReleaseEvent"
      [] type = "rollback" -> "processRollbackEvent"
      [] type = "branchDeleted" -> "processBranchDeletedEvent"

\* the next event of the batch: count it and call processEvent, which
\* dispatches on the type; after the last one sleep 100 ms and poll again
RunNext ==
    /\ pc = "loop"
    /\ IF bi < Len(batch)
       THEN LET id == NextEvent(batch, bi)
            IN  /\ bi' = bi + 1
                /\ event' = [ID |-> id, Type |-> events[id].Type, Status |-> events[id].Status,
                             StatusDesc |-> events[id].StatusDesc,
                             GitopsHashes |-> events[id].GitopsHashes]
                /\ runs' = [runs EXCEPT ![id] = @ + 1]
                /\ loc' = NoLoc
                /\ msgs' = << >>
                /\ upd' = NoUpdate
                /\ pc' = HandlerOf(events[id].Type)
                /\ UNCHANGED batch
       ELSE /\ pc' = "Run"
            /\ batch' = << >>
            /\ bi' = 0
            /\ event' = NoEvent
            /\ loc' = NoLoc
            /\ msgs' = << >>
            /\ upd' = NoUpdate
            /\ UNCHANGED runs
    /\ UNCHANGED <<storeVars, repoVars>>

(***************************************************************************)
(* The template-write-push sequence.  The outcome of the external steps    *)
(* is an input: fault names the step that fails ("none": no step fails),   *)
(* fails is the number of push attempts that fail for transient reasons.   *)
(* A push of a working copy that was copied from a stale cache is not a    *)
(* fast-forward of the remote: the remote rejects every attempt.           *)
(***************************************************************************)
\* the sha of the next commit created: a hash no commit of the remote has.
\* A commit whose push failed disappears with its working copy, and its hash
\* is recorded nowhere.
nextSha == Len(remote) + 1

DeployFaults == {"none", "instance", "chartClone", "helm", "patch", "write"}

WorkingCopy == SubSeq(remote, 1, cache)

FailsOf(fails) == IF cache = Len(remote) THEN fails ELSE PushMaxRetries + 1

\* a variant of gitopsTemplateAndWrite that commits the rendered files even
\* when they equal the files of the working copy
gitopsTemplateAndWriteAlwaysCommits(h, env, fault) ==
    IF ChartHasGitAtPrefix(env.Chart)
    THEN [sha |-> NoSha, err |-> "only HTTPS git repo urls supported", h |-> h]
    ELSE IF fault # "none"
    THEN [sha |-> NoSha, err |-> "cannot write to git", h |-> h]
    ELSE [sha |-> nextSha, err |-> Nil,
          h |-> Append(h, NewCommit(nextSha, "deploy", env.Env, env.App,
                                    DirAt(h, env.Env, env.App), RenderFiles(env), NoSha))]

\* gitopsTemplateAndWrite: [sha, err, h], h the working copy as it is left
gitopsTemplateAndWrite(h, env, fault) ==
    IF ChartHasGitAtPrefix(env.Chart)
    THEN [sha |-> NoSha, err |-> "only HTTPS git repo urls supported", h |-> h]
    ELSE IF ChartContainsDotGit(env.Chart) /\ fault = "chartClone"
    THEN [sha |-> NoSha, err |-> "cannot fetch chart from git", h |-> h]
    ELSE IF fault = "helm"
    THEN [sha |-> NoSha, err |-> "cannot run helm template", h |-> h]
    ELSE IF env.StrategicMergePatches # Empty /\ fault = "patch"
    THEN [sha |-> NoSha, err |-> "cannot apply Kustomize patches to chart", h |-> h]
    ELSE IF fault = "write"
    THEN [sha |-> NoSha, err |-> "cannot write to git", h |-> h]
    ELSE LET w == CommitFilesToGit(h, RenderFiles(env), env.Env, env.App, nextSha)
         IN  [sha |-> w.sha, err |-> Nil, h |-> w.h]

\* a variant of DeployEvent whose GitopsRef is set when the commit is made,
\* before the push
DeployEventRefBeforePush(env, artifact, triggeredBy, status, statusDesc, gitopsRef) ==
    [Env |-> env.Env, App |-> env.App, ArtifactID |-> artifact.ID,
     TriggeredBy |-> triggeredBy, Status |-> status, StatusDesc |-> statusDesc,
     GitopsRef |-> IF statusDesc = "push failed" THEN nextSha ELSE gitopsRef]

DeployEvent(env, artifact, triggeredBy, status, statusDesc, gitopsRef) ==
    [Env |-> env.Env, App |-> env.App, ArtifactID |-> artifact.ID,
     TriggeredBy |-> triggeredBy, Status |-> status, StatusDesc |-> statusDesc,
     GitopsRef |-> gitopsRef]

\* a variant of CallLog for a run that returns without its deferred cleanup
CallLogWithoutCleanup(kind, ops, attempts) ==
    [kind |-> kind, ops |-> SelectSeq(ops, LAMBDA op : op # "TmpFsCleanup"),
     attempts |-> attempts, fails |-> 0, base |-> cache]

CallLog(kind, ops, attempts) ==
    [kind |-> kind, ops |-> ops, attempts |-> attempts, fails |-> 0, base |-> cache]

\* cloneTemplateWriteAndPush: the returned event and error, the manifest as
\* the call leaves it, and the effects on the repository
cloneTemplateWriteAndPush(artifact, env, triggeredBy, fault, fails) ==
    LET failed(m, err, ops) ==
            [gitopsEvent |-> DeployEvent(m, artifact, triggeredBy, Failure, err, NoSha),
             err |-> err, env |-> m, remote |-> remote, invalidate |-> FALSE,
             call |-> CallLog("deploy", ops \o <<"TmpFsCleanup">>, 0)]
    IN  IF fault = "instance"
        THEN failed(env, "cannot copy the cache", <<"InstanceForWrite">>)
        ELSE LET r == ManifestResolveVars(env, ArtifactVars(artifact))
             IN  IF r.err # Nil
                 THEN failed(r.m, "cannot resolve manifest vars",
                             <<"InstanceForWrite", "ResolveVars">>)
                 ELSE LET t == gitopsTemplateAndWrite(WorkingCopy, r.m, fault)
                          pre == <<"InstanceForWrite", "ResolveVars", "gitopsTemplateAndWrite">>
                      IN  IF t.err # Nil THEN failed(r.m, t.err, pre)
                          ELSE IF t.sha = NoSha
                          THEN [gitopsEvent |-> DeployEvent(r.m, artifact, triggeredBy,
                                                            Success, "", NoSha),
                                err |-> Nil, env |-> r.m, remote |-> remote,
                                invalidate |-> FALSE,
                                call |-> CallLog("deploy", pre \o <<"TmpFsCleanup">>, 0)]
                          ELSE LET push == Retry(FailsOf(fails), 0)
                               IN  IF ~push.ok
                                   THEN [failed(r.m, "push failed",
                                                pre \o <<"Commit", "Push">>)
                                         EXCEPT !.call.attempts = push.attempts,
                                                !.call.fails = FailsOf(fails)]
                                   ELSE [gitopsEvent |-> DeployEvent(r.m, artifact, triggeredBy,
                                                                     Success, "", t.sha),
                                         err |-> Nil, env |-> r.m, remote |-> t.h,
                                         invalidate |-> TRUE,
                                         call |-> [CallLog("deploy",
                                                     pre \o <<"Commit", "Push", "Invalidate",
                                                              "TmpFsCleanup">>,
                                                     push.attempts)
                                                   EXCEPT !.fails = FailsOf(fails)]]

\* a variant of ApplyRepo in which every run invalidates the cache
ApplyRepoAlwaysInvalidates(r) ==
    /\ remote' = r.remote
    /\ invalidated' = TRUE
    /\ call' = r.call
    /\ UNCHANGED cache

\* the effect of a clone...AndPush result r on the repository variables
ApplyRepo(r) ==
    /\ remote' = r.remote
    /\ invalidated' = (invalidated \/ r.invalidate)
    /\ call' = r.call
    /\ UNCHANGED cache

\* the handler returns err to processEvent
Return(l, err) == [l EXCEPT !.returned = TRUE, !.err = err]

(***************************************************************************)
(* processArtifactEvent.                                                   *)
(***************************************************************************)
Elems(q) == {q[i] : i \in 1..Len(q)}

\* keepReposWithCleanupPolicyUpToDate: the list as it is persisted afterwards
keepReposWithCleanupPolicyUpToDate(list, repo, loadErr, saveErr) ==
    LET loaded == IF loadErr THEN << >> ELSE list
        repoIsNew == repo \notin Elems(loaded)
    IN  IF repoIsNew /\ ~saveErr THEN Append(loaded, repo) ELSE list

\* parse the blob and record the repository when a cleanup policy is declared
processArtifactEventParse ==
    /\ pc = "processArtifactEvent"
    /\ loc.idx = 0
    /\ LET blob == events[event.ID].Blob
       IN  IF ~blob.ok
           THEN /\ loc' = Return(loc, "cannot parse artifact")
                /\ pc' = "processEvent"
                /\ UNCHANGED <<reposWithCleanupPolicy, storeErrors>>
           ELSE /\ loc' = [loc EXCEPT !.idx = 1, !.artifact = blob.body]
                /\ pc' = "processArtifactEvent"
                /\ IF HasCleanupPolicy(blob.body)
                   THEN \E loadErr \in BOOLEAN, saveErr \in BOOLEAN :
                          LET n == (IF loadErr THEN 1 ELSE 0) + (IF saveErr THEN 1 ELSE 0)
                          IN  /\ storeErrors + n <= MaxStoreErrors
                              /\ storeErrors' = storeErrors + n
                              /\ reposWithCleanupPolicy' =
                                   keepReposWithCleanupPolicyUpToDate(
                                       reposWithCleanupPolicy,
                                       blob.body.Version.RepositoryName, loadErr, saveErr)
                   ELSE UNCHANGED <<reposWithCleanupPolicy, storeErrors>>
    /\ UNCHANGED <<events, repoVars, batch, bi, event, msgs, upd, runs>>

\* one iteration of the loop over artifact.Environments, or its end
processArtifactEventEnv ==
    /\ pc = "processArtifactEvent"
    /\ loc.idx >= 1
    /\ IF loc.idx > Len(loc.artifact.Environments)
       THEN /\ loc' = Return(loc, Nil)
            /\ pc' = "processEvent"
            /\ UNCHANGED repoVars
       ELSE LET env == loc.artifact.Environments[loc.idx]
                trigger == deployTrigger(loc.artifact, env.Deploy)
            IN  CASE trigger = "panic" ->
                       /\ pc' = "panic"
                       /\ UNCHANGED <<loc, repoVars>>
                  [] trigger = "false" ->
                       /\ loc' = [loc EXCEPT !.idx = @ + 1]
                       /\ pc' = "processArtifactEvent"
                       /\ UNCHANGED repoVars
                  [] trigger = "true" ->
                       \E fault \in DeployFaults, fails \in PushFailures :
                          /\ fault = "none" \/ fails = 0
                          /\ LET r == cloneTemplateWriteAndPush(loc.artifact, env, "policy",
                                                                fault, fails)
                                 l == [loc EXCEPT
                                         !.artifact.Environments[loc.idx] = r.env,
                                         !.gitopsEvents = Append(@, r.gitopsEvent)]
                             IN  /\ ApplyRepo(r)
                                 /\ IF r.err # Nil
                                    THEN /\ loc' = Return(l, r.err)
                                         /\ pc' = "processEvent"
                                    ELSE /\ loc' = [l EXCEPT !.idx = @ + 1]
                                         /\ pc' = "processArtifactEvent"
    /\ UNCHANGED <<storeVars, batch, bi, event, msgs, upd, runs>>

(***************************************************************************)
(* processReleaseEvent.                                                    *)
(***************************************************************************)
\* Store.Artifact: the ID of the artifact event holding artifact id, 0 when none does
RECURSIVE ArtifactFrom(_, _, _)
ArtifactFrom(rows, id, i) ==
    IF i > Len(rows) THEN 0
    ELSE IF rows[i].Type = "artifact" /\ rows[i].Blob.ok /\ rows[i].Blob.body.ID = id THEN i
    ELSE ArtifactFrom(rows, id, i + 1)

StoreArtifact(rows, id) == ArtifactFrom(rows, id, 1)

\* parse the request and fetch the artifact it names
processReleaseEventParse ==
    /\ pc = "processReleaseEvent"
    /\ loc.idx = 0
    /\ LET blob == events[event.ID].Blob
       IN  IF ~blob.ok
           THEN /\ loc' = Return(loc, "cannot parse release request")
                /\ pc' = "processEvent"
           ELSE LET a == StoreArtifact(events, blob.body.ArtifactID)
                IN  IF a = 0
                    THEN /\ loc' = Return([loc EXCEPT !.request = blob.body],
                                          "cannot find artifact")
                         /\ pc' = "processEvent"
                    ELSE /\ loc' = [loc EXCEPT !.idx = 1, !.request = blob.body,
                                               !.artifact = events[a].Blob.body]
                         /\ pc' = "processReleaseEvent"
    /\ UNCHANGED <<storeVars, repoVars, batch, bi, event, msgs, upd, runs>>

\* a variant of AppRequested that lets every app through
AppRequestedAlways(releaseRequest, env) == TRUE

\* the app filter of processReleaseEvent, on the manifest after ResolveVars
AppRequested(releaseRequest, env) ==
    releaseRequest.App = Empty \/ env.App = releaseRequest.App

\* one iteration of the loop over artifact.Environments, or its end
processReleaseEventEnv ==
    /\ pc = "processReleaseEvent"
    /\ loc.idx >= 1
    /\ IF loc.idx > Len(loc.artifact.Environments)
       THEN /\ loc' = Return(loc, Nil)
            /\ pc' = "processEvent"
            /\ UNCHANGED repoVars
       ELSE LET env == loc.artifact.Environments[loc.idx]
            IN  IF env.Env # loc.request.Env
                THEN /\ loc' = [loc EXCEPT !.idx = @ + 1]
                     /\ pc' = "processReleaseEvent"
                     /\ UNCHANGED repoVars
                ELSE LET resolved == ManifestResolveVars(env, ArtifactVars(loc.artifact)).m
                         l0 == [loc EXCEPT !.artifact.Environments[loc.idx] = resolved]
                     IN  IF ~AppRequested(loc.request, resolved)
                         THEN /\ loc' = [l0 EXCEPT !.idx = @ + 1]
                              /\ pc' = "processReleaseEvent"
                              /\ UNCHANGED repoVars
                         ELSE \E fault \in DeployFaults, fails \in PushFailures :
                                /\ fault = "none" \/ fails = 0
                                /\ LET r == cloneTemplateWriteAndPush(
                                                l0.artifact, resolved,
                                                loc.request.TriggeredBy, fault, fails)
                                       l == [l0 EXCEPT
                                               !.artifact.Environments[loc.idx] = r.env,
                                               !.gitopsEvents = Append(@, r.gitopsEvent)]
                                   IN  /\ ApplyRepo(r)
                                       /\ IF r.err # Nil
                                          THEN /\ loc' = Return(l, r.err)
                                               /\ pc' = "processEvent"
                                          ELSE /\ loc' = [l EXCEPT !.idx = @ + 1]
                                               /\ pc' = "processReleaseEvent"
    /\ UNCHANGED <<storeVars, batch, bi, event, msgs, upd, runs>>

(***************************************************************************)
(* processRollbackEvent.                                                   *)
(***************************************************************************)
\* the commits of h that touch <env>/<app>/, newest first
RECURSIVE DirLog(_, _, _)
DirLog(h, env, app) ==
    IF h = << >> THEN << >>
    ELSE LET c == h[Len(h)]
             rest == DirLog(SubSeq(h, 1, Len(h) - 1), env, app)
         IN  IF c.env = env /\ c.app = app THEN <<c>> \o rest ELSE rest

\* nativeGit.RollbackCommit: the commit is a revert commit
RollbackCommit(c) == c.kind = "revert"

\* a variant of the walk that stops after the commit with hash sha
RECURSIVE CommitsToRevertWithTarget(_, _)
CommitsToRevertWithTarget(log, sha) ==
    IF log = << >> THEN << >>
    ELSE (IF ~RollbackCommit(Head(log)) THEN <<Head(log)>> ELSE << >>)
         \o (IF Head(log).sha = sha THEN << >> ELSE CommitsToRevertWithTarget(Tail(log), sha))

\* the walk of revertTo: the commits before the one with hash sha that are
\* not rollback commits, in walk order
RECURSIVE CommitsToRevert(_, _)
CommitsToRevert(log, sha) ==
    IF log = << >> THEN << >>
    ELSE IF Head(log).sha = sha THEN << >>
    ELSE (IF ~RollbackCommit(Head(log)) THEN <<Head(log)>> ELSE << >>)
         \o CommitsToRevert(Tail(log), sha)

\* nativeGit.HasBeenReverted: a commit of the path names this commit's hash
HasBeenReverted(h, commit, env, app) ==
    \E i \in 1..Len(h) : h[i].env = env /\ h[i].app = app /\ h[i].reverts = commit.sha

\* git revert --no-edit <sha>: applies cleanly when the directory still holds
\* what the commit left there
RevertApplies(h, commit) ==
    DirAt(h, commit.env, commit.app) = commit.after /\ commit.after # commit.before

\* the loop of revertTo over commitsToRevert: [err, h, next], h the working
\* copy and next the next free sha afterwards; fault fails the first revert
RECURSIVE RevertAll(_, _, _, _, _, _)
RevertAll(h, todo, env, app, next, fault) ==
    IF todo = << >> THEN [err |-> Nil, h |-> h, next |-> next]
    ELSE LET commit == Head(todo)
         IN  IF HasBeenReverted(h, commit, env, app)
             THEN RevertAll(h, Tail(todo), env, app, next, fault)
             ELSE IF fault \/ ~RevertApplies(h, commit)
             THEN [err |-> "could not revert", h |-> h, next |-> next]
             ELSE RevertAll(
                     Append(h, NewCommit(next, "revert", commit.env, commit.app,
                                         commit.after, commit.before, commit.sha)),
                     Tail(todo), env, app, next + 1, FALSE)

\* a variant of revertTo that fails when the walk does not meet sha
revertToKnownTarget(env, app, h, sha, next, fault) ==
    IF h = << >> THEN [err |-> "could not walk commits", h |-> h, next |-> next]
    ELSE IF \A i \in 1..Len(DirLog(h, env, app)) : DirLog(h, env, app)[i].sha # sha
    THEN [err |-> "could not find the target", h |-> h, next |-> next]
    ELSE RevertAll(h, CommitsToRevert(DirLog(h, env, app), sha), env, app, next, fault)

\* revertTo: repo.Log fails on a repository without commits
revertTo(env, app, h, sha, next, fault) ==
    IF h = << >> THEN [err |-> "could not walk commits", h |-> h, next |-> next]
    ELSE RevertAll(h, CommitsToRevert(DirLog(h, env, app), sha), env, app, next, fault)

\* a variant of shasSince that includes the commit since
RECURSIVE shasSinceInclusive(_, _)
shasSinceInclusive(h, since) ==
    IF h = << >> THEN << >>
    ELSE IF h[Len(h)].sha = since THEN <<since>>
    ELSE <<h[Len(h)].sha>> \o shasSinceInclusive(SubSeq(h, 1, Len(h) - 1), since)

\* shasSince: the hashes from the head back to, not including, since
RECURSIVE shasSince(_, _)
shasSince(h, since) ==
    IF h = << >> THEN << >>
    ELSE IF h[Len(h)].sha = since THEN << >>
    ELSE <<h[Len(h)].sha>> \o shasSince(SubSeq(h, 1, Len(h) - 1), since)

RollbackFaults == {"none", "instance", "revert", "push"}

RollbackEvent(status, statusDesc, gitopsRefs) ==
    [IsNil |-> FALSE, Status |-> status, StatusDesc |-> statusDesc, GitopsRefs |-> gitopsRefs]

\* the whole handler: it returns (nil, err) for a blob that does not parse
processRollbackEvent ==
    /\ pc = "processRollbackEvent"
    /\ LET blob == events[event.ID].Blob
       IN  IF ~blob.ok
           THEN /\ loc' = Return(loc, "cannot parse release request")
                /\ UNCHANGED repoVars
           ELSE \E fault \in RollbackFaults :
                  LET req == blob.body
                      failed(err, ops) ==
                          /\ loc' = Return([loc EXCEPT
                                              !.request = req,
                                              !.rollbackEvent = RollbackEvent(Failure, err, << >>)],
                                           err)
                          /\ call' = CallLog("rollback", ops \o <<"TmpFsCleanup">>, 0)
                          /\ UNCHANGED <<remote, cache, invalidated>>
                  IN  IF fault = "instance"
                      THEN failed("cannot copy the cache", <<"InstanceForWrite">>)
                      ELSE LET headSha == Head2(WorkingCopy)
                               rv == revertTo(req.Env, req.App, WorkingCopy, req.TargetSHA,
                                              nextSha, fault = "revert")
                           IN  IF rv.err # Nil
                               THEN failed(rv.err, <<"InstanceForWrite", "revertTo">>)
                               ELSE LET hashes == shasSince(rv.h, headSha)
                                        pre == <<"InstanceForWrite", "revertTo", "shasSince",
                                                 "Push">>
                                    IN  IF fault = "push" \/ cache # Len(remote)
                                        THEN failed("push failed", pre)
                                        ELSE /\ loc' = Return([loc EXCEPT
                                                         !.request = req,
                                                         !.rollbackEvent =
                                                            RollbackEvent(Success, "", hashes)],
                                                       Nil)
                                             /\ call' = CallLog("rollback",
                                                          pre \o <<"Invalidate", "TmpFsCleanup">>,
                                                          1)
                                             /\ remote' = rv.h
                                             /\ invalidated' = TRUE
                                             /\ UNCHANGED cache
    /\ pc' = "processEvent"
    /\ UNCHANGED <<storeVars, batch, bi, event, msgs, upd, runs>>

(***************************************************************************)
(* processBranchDeletedEvent.                                              *)
(***************************************************************************)
DeleteFaults == {"none", "instance", "delDir", "status", "commit", "push"}

DeleteEvent(env, app, triggeredBy, status, statusDesc, gitopsRef) ==
    [Env |-> env, App |-> app, TriggeredBy |-> triggeredBy, Status |-> status,
     StatusDesc |-> statusDesc, GitopsRef |-> gitopsRef]

\* a variant of cloneTemplateDeleteAndPush that returns the event it was
\* given, not nil, when there is nothing to commit
cloneTemplateDeleteAndPushNeverNil(cleanupPolicy, env, triggeredBy, gitopsEvent, fault) ==
    LET h == WorkingCopy
        app == cleanupPolicy.AppToCleanup
    IN  IF DirAt(h, env, app) = << >> \/ fault # "none" \/ cache # Len(remote)
        THEN [gitopsEvent |-> gitopsEvent, isNil |-> FALSE, err |-> Nil, remote |-> remote,
              invalidate |-> FALSE,
              call |-> CallLog("delete", <<"InstanceForWrite", "DelDir", "NothingToCommit",
                                           "TmpFsCleanup">>, 0)]
        ELSE [gitopsEvent |-> [gitopsEvent EXCEPT !.GitopsRef = nextSha],
              isNil |-> FALSE, err |-> Nil,
              remote |-> Append(h, NewCommit(nextSha, "delete", env, app,
                                             DirAt(h, env, app), << >>, NoSha)),
              invalidate |-> TRUE,
              call |-> CallLog("delete", <<"InstanceForWrite", "DelDir", "NothingToCommit",
                                           "Commit", "Push", "Invalidate", "TmpFsCleanup">>, 1)]

\* cloneTemplateDeleteAndPush: the returned event (isNil: a nil event) and
\* error, and the effects on the repository
cloneTemplateDeleteAndPush(cleanupPolicy, env, triggeredBy, gitopsEvent, fault) ==
    LET failed(err, ops) ==
            [gitopsEvent |-> [gitopsEvent EXCEPT !.Status = Failure, !.StatusDesc = err],
             isNil |-> FALSE, err |-> err, remote |-> remote, invalidate |-> FALSE,
             call |-> CallLog("delete", ops \o <<"TmpFsCleanup">>, 0)]
        unchanged(ev, isNil, ops) ==
            [gitopsEvent |-> ev, isNil |-> isNil, err |-> Nil, remote |-> remote,
             invalidate |-> FALSE,
             call |-> CallLog("delete", ops \o <<"TmpFsCleanup">>, 0)]
        h == WorkingCopy
        app == cleanupPolicy.AppToCleanup
    IN  IF fault = "instance" THEN failed("cannot copy the cache", <<"InstanceForWrite">>)
        ELSE IF fault = "delDir"
        THEN failed("cannot delete the directory", <<"InstanceForWrite", "DelDir">>)
        ELSE IF fault = "status"
        THEN failed("cannot read the worktree status",
                    <<"InstanceForWrite", "DelDir", "NothingToCommit">>)
        ELSE IF DirAt(h, env, app) = << >>
        THEN unchanged(gitopsEvent, TRUE, <<"InstanceForWrite", "DelDir", "NothingToCommit">>)
        ELSE IF fault = "commit"
        THEN unchanged(gitopsEvent, FALSE,
                       <<"InstanceForWrite", "DelDir", "NothingToCommit", "Commit">>)
        ELSE LET pre == <<"InstanceForWrite", "DelDir", "NothingToCommit", "Commit", "Push">>
             IN  IF fault = "push" \/ cache # Len(remote)
                 THEN [failed("push failed", pre) EXCEPT !.call.attempts = 1]
                 ELSE [gitopsEvent |-> [gitopsEvent EXCEPT !.GitopsRef = nextSha],
                       isNil |-> FALSE, err |-> Nil,
                       remote |-> Append(h, NewCommit(nextSha, "delete", env, app,
                                                      DirAt(h, env, app), << >>, NoSha)),
                       invalidate |-> TRUE,
                       call |-> CallLog("delete", pre \o <<"Invalidate", "TmpFsCleanup">>, 1)]

\* parse the blob
processBranchDeletedEventParse ==
    /\ pc = "processBranchDeletedEvent"
    /\ loc.idx = 0
    /\ LET blob == events[event.ID].Blob
       IN  IF ~blob.ok
           THEN /\ loc' = Return(loc, "cannot parse delete request")
                /\ pc' = "processEvent"
           ELSE /\ loc' = [loc EXCEPT !.idx = 1, !.request = blob.body]
                /\ pc' = "processBranchDeletedEvent"
    /\ UNCHANGED <<storeVars, repoVars, batch, bi, event, msgs, upd, runs>>

\* one iteration of the loop over branchDeletedEvent.Manifests, or its end
processBranchDeletedEventEnv ==
    /\ pc = "processBranchDeletedEvent"
    /\ loc.idx >= 1
    /\ IF loc.idx > Len(loc.request.Manifests)
       THEN /\ loc' = Return(loc, Nil)
            /\ pc' = "processEvent"
            /\ UNCHANGED repoVars
       ELSE LET env == loc.request.Manifests[loc.idx]
                next == [loc EXCEPT !.idx = @ + 1]
            IN  IF env.Cleanup.IsNil
                THEN /\ loc' = next
                     /\ pc' = "processBranchDeletedEvent"
                     /\ UNCHANGED repoVars
                ELSE LET rc == CleanupResolveVars(env.Cleanup,
                                                  [BRANCH |-> loc.request.Branch])
                         ev0 == DeleteEvent(env.Env, env.Cleanup.AppToCleanup, "policy",
                                            Success, "", NoSha)
                         ev == [ev0 EXCEPT !.App = rc.c.AppToCleanup]
                         trigger == cleanupTrigger(loc.request.Branch, rc.c)
                     IN  IF rc.err # Nil
                         THEN /\ loc' = Return(
                                   [loc EXCEPT !.deleteEvents =
                                      << [ev0 EXCEPT !.Status = Failure,
                                                     !.StatusDesc = rc.err] >>],
                                   rc.err)
                              /\ pc' = "processEvent"
                              /\ UNCHANGED repoVars
                         ELSE CASE trigger = "panic" ->
                                     /\ pc' = "panic"
                                     /\ UNCHANGED <<loc, repoVars>>
                                [] trigger = "false" ->
                                     /\ loc' = next
                                     /\ pc' = "processBranchDeletedEvent"
                                     /\ UNCHANGED repoVars
                                [] trigger = "true" ->
                                     \E fault \in DeleteFaults :
                                        LET r == cloneTemplateDeleteAndPush(
                                                    rc.c, env.Env, "policy", ev, fault)
                                            l == IF r.isNil THEN next
                                                 ELSE [next EXCEPT !.deleteEvents =
                                                          Append(@, r.gitopsEvent)]
                                        IN  /\ ApplyRepo(r)
                                            /\ IF r.err # Nil
                                               THEN /\ loc' = Return([l EXCEPT !.idx = loc.idx],
                                                                     r.err)
                                                    /\ pc' = "processEvent"
                                               ELSE /\ loc' = l
                                                    /\ pc' = "processBranchDeletedEvent"
    /\ UNCHANGED <<storeVars, batch, bi, event, msgs, upd, runs>>

(***************************************************************************)
(* processEvent after the handler returned: notifications, gitops hashes   *)
(* and the event's status.                                                 *)
(***************************************************************************)
Message(kind, isNil, ev, refs) ==
    [kind |-> kind, IsNil |-> isNil, Status |-> ev.Status, StatusDesc |-> ev.StatusDesc,
     GitopsRefs |-> refs]

MessageFromGitOpsEvent(ev) == Message("deploy", FALSE, ev, <<ev.GitopsRef>>)

MessageFromDeleteEvent(ev) == Message("delete", FALSE, ev, <<ev.GitopsRef>>)

MessageFromRollbackEvent(ev) == Message("rollback", ev.IsNil, ev, ev.GitopsRefs)

\* a variant of setGitopsHashOnEvent that puts the newest hash first
setGitopsHashOnEventNewestFirst(hashes, gitopsSha) ==
    IF gitopsSha = NoSha THEN hashes
    ELSE [IsNil |-> FALSE, list |-> <<gitopsSha>> \o hashes.list]

setGitopsHashOnEvent(hashes, gitopsSha) ==
    IF gitopsSha = NoSha THEN hashes
    ELSE [IsNil |-> FALSE, list |-> Append(hashes.list, gitopsSha)]

RECURSIVE SetHashes(_, _)
SetHashes(hashes, shas) ==
    IF shas = << >> THEN hashes
    ELSE SetHashes(setGitopsHashOnEvent(hashes, Head(shas)), Tail(shas))

Refs(evs) == [i \in 1..Len(evs) |-> evs[i].GitopsRef]

IsSuccess(ev) == ev.Status = Success

\* a variant of Broadcasts that notifies of the successful deploys only
BroadcastsSuccessesOnly(type, l) ==
    CASE type = "rollback" -> <<MessageFromRollbackEvent(l.rollbackEvent)>>
      [] type = "branchDeleted" ->
            [i \in 1..Len(l.deleteEvents) |-> MessageFromDeleteEvent(l.deleteEvents[i])]
      [] OTHER ->
            LET ok == SelectSeq(l.gitopsEvents, IsSuccess)
            IN  [i \in 1..Len(ok) |-> MessageFromGitOpsEvent(ok[i])]

\* a variant of RecordedRefs that records hashes only when the handler
\* returned no error
RecordedRefsOfCleanRunsOnly(type, l) ==
    IF l.err # Nil THEN << >>
    ELSE CASE type = "rollback" -> l.rollbackEvent.GitopsRefs
           [] type = "branchDeleted" -> Refs(l.deleteEvents)
           [] OTHER -> Refs(l.gitopsEvents)

\* a variant of Broadcasts that, after a failed environment, also notifies of
\* the environment that follows it
BroadcastsPastFailure(type, l) ==
    CASE type = "rollback" -> <<MessageFromRollbackEvent(l.rollbackEvent)>>
      [] type = "branchDeleted" ->
            [i \in 1..Len(l.deleteEvents) |-> MessageFromDeleteEvent(l.deleteEvents[i])]
      [] OTHER ->
            [i \in 1..Len(l.gitopsEvents) |-> MessageFromGitOpsEvent(l.gitopsEvents[i])]
            \o (IF l.err # Nil /\ l.gitopsEvents # << >>
                THEN <<MessageFromGitOpsEvent(l.gitopsEvents[Len(l.gitopsEvents)])>>
                ELSE << >>)

\* what processEvent broadcasts for the handler's result
Broadcasts(type, l) ==
    CASE type = "rollback" -> <<MessageFromRollbackEvent(l.rollbackEvent)>>
      [] type = "branchDeleted" ->
            [i \in 1..Len(l.deleteEvents) |-> MessageFromDeleteEvent(l.deleteEvents[i])]
      [] OTHER ->
            [i \in 1..Len(l.gitopsEvents) |-> MessageFromGitOpsEvent(l.gitopsEvents[i])]

\* the gitops hashes processEvent records for the handler's result
RecordedRefs(type, l) ==
    CASE type = "rollback" -> l.rollbackEvent.GitopsRefs
      [] type = "branchDeleted" -> Refs(l.deleteEvents)
      [] OTHER -> Refs(l.gitopsEvents)

StatusFor(err) == IF err # Nil THEN StatusError ELSE StatusProcessed

StatusDescFor(err, old) == IF err # Nil THEN err ELSE old

\* updateEvent: Store.UpdateEventStatus with the hashes marshalled to JSON
processEventTail ==
    /\ pc = "processEvent"
    /\ ~(event.Type = "rollback" /\ loc.rollbackEvent.IsNil)
    /\ msgs' = msgs \o Broadcasts(event.Type, loc)
    /\ event' = [event EXCEPT
                   !.GitopsHashes = SetHashes(@, RecordedRefs(event.Type, loc)),
                   !.Status = StatusFor(loc.err),
                   !.StatusDesc = StatusDescFor(loc.err, @)]
    /\ \E ok \in BOOLEAN :
          /\ ok \/ storeErrors < MaxStoreErrors
          /\ upd' = [called |-> TRUE, ok |-> ok]
          /\ IF ok
             THEN /\ events' = [events EXCEPT
                                  ![event.ID].Status = event'.Status,
                                  ![event.ID].StatusDesc = event'.StatusDesc,
                                  ![event.ID].GitopsHashes = event'.GitopsHashes]
                  /\ UNCHANGED storeErrors
             ELSE /\ storeErrors' = storeErrors + 1
                  /\ UNCHANGED events
    /\ pc' = "loop"
    /\ call' = NoCall
    /\ UNCHANGED <<reposWithCleanupPolicy, remote, cache, invalidated, batch, bi, loc, runs>>

\* the rollback handler returned a nil event: the message constructor or the
\* range over rollbackEvent.GitopsRefs dereferences it and the process dies
processEventNilRollback ==
    /\ pc = "processEvent"
    /\ event.Type = "rollback"
    /\ loc.rollbackEvent.IsNil
    /\ \/ msgs' = msgs
       \/ msgs' = Append(msgs, MessageFromRollbackEvent(loc.rollbackEvent))
    /\ pc' = "panic"
    /\ UNCHANGED <<storeVars, repoVars, batch, bi, event, loc, upd, runs>>

Next ==
    \/ \E i \in 1..Len(EventCatalog) : Enqueue(i)
    \/ RefreshCache
    \/ RunPollError
    \/ RunPoll
    \/ RunNext
    \/ processArtifactEventParse
    \/ processArtifactEventEnv
    \/ processReleaseEventParse
    \/ processReleaseEventEnv
    \/ processRollbackEvent
    \/ processBranchDeletedEventParse
    \/ processBranchDeletedEventEnv
    \/ processEventTail
    \/ processEventNilRollback

Spec == Init /\ [][Next]_vars

(***************************************************************************)
(* Properties of the worker.                                               *)
(***************************************************************************)
HandlerPcs ==
    {"processArtifactEvent", "processReleaseEvent", "processRollbackEvent",
     "processBranchDeletedEvent"}

Terminal == {StatusProcessed, StatusError}

\* processEvent is over for the dispatched event: it returned or the process died
ProcessingOver == event.ID # 0 /\ pc \in {"loop", "panic"}

IsPrefix(s, t) == Len(s) <= Len(t) /\ SubSeq(t, 1, Len(s)) = s

Last(s) == s[Len(s)]

\* the environments of artifact a whose deploy policy matches it
MatchingEnvs(a) ==
    {i \in 1..Len(a.Environments) : deployTrigger(a, a.Environments[i].Deploy) = "true"}

\* C1: every event the worker dispatched has reached the status processed or
\* error once its processing is over, unless the store refused the write of
\* the status.
C1_DispatchedEventReachesTerminalStatus ==
    (ProcessingOver /\ ~(upd.called /\ ~upd.ok)) => events[event.ID].Status \in Terminal

\* C2: once the handler has returned to processEvent and processEvent is
\* over, the status processed was written if the handler's error is nil, and
\* the status error with the error's text otherwise.
C2_StatusFollowsHandlerError ==
    (loc.returned /\ pc # "processEvent") =>
        /\ upd.called
        /\ event.Status = (IF loc.err = Nil THEN StatusProcessed ELSE StatusError)
        /\ loc.err # Nil => event.StatusDesc = loc.err

\* an artifact event whose blob parses has been processed: its notifications
\* are out and its status write has been issued
ArtifactEventDone ==
    /\ pc = "loop"
    /\ upd.called
    /\ event.Type = "artifact"
    /\ events[event.ID].Blob.ok

\* C3 as stated: an artifact event whose deploy policies match K of its
\* environments gets exactly K deploy notifications and at most K hashes,
\* also when template-write-push fails for a matching environment.
C3_ExactlyKNotifications ==
    ArtifactEventDone =>
        LET K == Cardinality(MatchingEnvs(events[event.ID].Blob.body))
        IN  Len(msgs) = K /\ Len(event.GitopsHashes.list) <= K

\* C3 as the code has it: one deploy notification per matching environment,
\* in manifest order, up to and including the first one whose
\* template-write-push fails (all K of them, successes, when none fails),
\* and at most one hash per notification.
C3_NotificationsUpToFirstFailure ==
    ArtifactEventDone =>
        LET matching == MatchingEnvs(events[event.ID].Blob.body)
            tried == {i \in matching : i <= loc.idx}
            n == Len(msgs)
        IN  /\ n = Cardinality(tried)
            /\ \A j \in 1..n : msgs[j].kind = "deploy" /\ (j < n => msgs[j].Status = Success)
            /\ loc.err = Nil => n = Cardinality(matching) /\ (n > 0 => msgs[n].Status = Success)
            /\ loc.err # Nil => n > 0 /\ msgs[n].Status = Failure
            /\ Len(event.GitopsHashes.list) <= n

\* the first of two matching environments failed: one notification, not two
C3_Witness ==
    /\ ArtifactEventDone
    /\ loc.err # Nil
    /\ Len(msgs) = 1
    /\ Cardinality(MatchingEnvs(events[event.ID].Blob.body)) = 2

\* a step of the artifact or release handler: the events produced so far
\* stay, and a push adds one commit and one Success event carrying its sha
C4Call ==
    pc \in {"processArtifactEvent", "processReleaseEvent"} =>
        /\ IsPrefix(loc.gitopsEvents, loc'.gitopsEvents)
        /\ remote' # remote =>
              /\ remote' = Append(remote, Last(remote'))
              /\ loc'.gitopsEvents = Append(loc.gitopsEvents, Last(loc'.gitopsEvents))
              /\ Last(loc'.gitopsEvents).Status = Success
              /\ Last(loc'.gitopsEvents).GitopsRef = Last(remote').sha
              /\ Last(remote').sha # NoSha

\* processEvent after a handler that failed on its n-th processed environment
C4Tail ==
    (/\ pc = "processEvent"
     /\ pc' = "loop"
     /\ event.Type \in {"artifact", "release"}
     /\ loc.err # Nil
     /\ loc.gitopsEvents # << >>) =>
        LET n == Len(loc.gitopsEvents)
        IN  /\ loc.gitopsEvents[n].Status = Failure
            /\ event'.Status = StatusError
            /\ Len(msgs') = n
            /\ \A i \in 1..n :
                  /\ msgs'[i].kind = "deploy"
                  /\ msgs'[i].Status = loc.gitopsEvents[i].Status
                  /\ msgs'[i].GitopsRefs = <<loc.gitopsEvents[i].GitopsRef>>
            /\ \A i \in 1..(n - 1) :
                  /\ loc.gitopsEvents[i].Status = Success
                  /\ loc.gitopsEvents[i].GitopsRef # NoSha =>
                        loc.gitopsEvents[i].GitopsRef \in Elems(event'.GitopsHashes.list)
            /\ upd'.called
            /\ upd'.ok => /\ events'[event.ID].Status = StatusError
                          /\ events'[event.ID].GitopsHashes = event'.GitopsHashes

\* C4: when an artifact or release event fails on its n-th processed
\* environment, the status written is error, the hashes written with it hold
\* the sha of every commit pushed for the environments before, and a
\* notification went out for each of these and for the failed one.
C4_PartialProgressPersisted == [][C4Call /\ C4Tail]_vars

\* the first environment was pushed, the second failed, the store took the write
C4_Witness ==
    /\ pc = "loop"
    /\ upd.called /\ upd.ok
    /\ event.Type \in {"artifact", "release"}
    /\ loc.err # Nil
    /\ Len(loc.gitopsEvents) = 2
    /\ loc.gitopsEvents[1].GitopsRef # NoSha
    /\ events[event.ID].Status = StatusError
    /\ events[event.ID].GitopsHashes.list = <<loc.gitopsEvents[1].GitopsRef>>
    /\ Len(msgs) = 2

\* C5: after a branch-deleted event was processed and its status stored, with
\* no store error so far, every delete commit of the repository is recorded
\* in the gitops hashes of an event.
C5_EveryPushedDeleteRecorded ==
    (/\ pc = "loop"
     /\ upd.called /\ upd.ok
     /\ event.Type = "branchDeleted"
     /\ storeErrors = 0) =>
        \A i \in 1..Len(remote) :
            remote[i].kind = "delete" =>
                \E id \in 1..Len(events) : remote[i].sha \in Elems(events[id].GitopsHashes.list)

\* C6: once the processing of a rollback event is over, exactly one rollback
\* notification, of a rollback event that exists, has been broadcast.
C6_OneRollbackNotification ==
    (ProcessingOver /\ event.Type = "rollback") =>
        Len(msgs) = 1 /\ msgs[1].kind = "rollback" /\ ~msgs[1].IsNil

\* C7: the worker never panics.
C7_WorkerNeverPanics == pc # "panic"

\* C8: an event whose blob does not parse has, once its processing is over,
\* the status error with the parse failure as description, and no hashes.
C8_UnparseableBlobEndsInError ==
    (ProcessingOver /\ ~events[event.ID].Blob.ok) =>
        /\ upd.called
        /\ event.Status = StatusError
        /\ event.StatusDesc = loc.err
        /\ event.GitopsHashes.list = << >>

\* the dispatch of the next event of a poll
C9Dispatch ==
    (pc = "loop" /\ pc' \in HandlerPcs) =>
        /\ batch' = batch
        /\ bi' = bi + 1
        /\ event'.ID = batch[bi']
        /\ pc' = HandlerOf(events[batch[bi']].Type)
        /\ \A j \in 1..(Len(batch) - 1) : batch[j] < batch[j + 1]
        /\ bi >= 1 => /\ event.ID = batch[bi]
                      /\ upd.called
                      /\ upd.ok => events[batch[bi]].Status \in Terminal

\* C9: the events of a poll are dispatched one after another in the order
\* returned, oldest first, and the status write of an event is issued (and
\* stored, when the store takes it) before the handler of the next starts.
C9_DispatchInOrder ==
    [][/\ C9Dispatch
       /\ pc \in HandlerPcs \cup {"processEvent"} => event.ID = batch[bi]]_vars

\* the handler of the second event of a poll runs, the first has its status
C9_Witness ==
    /\ pc \in HandlerPcs
    /\ bi = 2
    /\ event.ID = batch[2]
    /\ events[batch[1]].Status \in Terminal

\* a call of cloneTemplateWriteAndPush that got as far as the commit step
C10Call ==
    /\ pc \in {"processArtifactEvent", "processReleaseEvent"}
    /\ Len(loc'.gitopsEvents) = Len(loc.gitopsEvents) + 1
    /\ Last(loc'.gitopsEvents).Status = Success \/ "Commit" \in Elems(call'.ops)

\* C10: a run of template-write-push that succeeds on a working copy without
\* the rendered files adds one commit that holds them; a run on a working
\* copy that holds them already creates no commit, pushes nothing, returns a
\* Success event with the empty ref, and adds no hash to the event.
C10_TemplateWritePushIdempotent ==
    [][C10Call =>
         LET m == loc'.artifact.Environments[loc.idx]
             e == Last(loc'.gitopsEvents)
         IN  IF DirAt(WorkingCopy, m.Env, m.App) = RenderFiles(m)
             THEN /\ remote' = remote
                  /\ "Commit" \notin Elems(call'.ops)
                  /\ "Push" \notin Elems(call'.ops)
                  /\ e.Status = Success
                  /\ e.GitopsRef = NoSha
                  /\ setGitopsHashOnEvent(event.GitopsHashes, e.GitopsRef) = event.GitopsHashes
             ELSE e.Status = Success =>
                    /\ remote' = Append(remote, Last(remote'))
                    /\ e.GitopsRef = Last(remote').sha
                    /\ DirAt(remote', m.Env, m.App) = RenderFiles(m)]_vars

\* the same artifact twice: the first event's run pushed every commit of the
\* repository, the second event's run finds nothing to commit
C10_Witness ==
    /\ Len(events) = 2
    /\ event.ID = 2
    /\ pc = "processArtifactEvent"
    /\ events[1].Type = "artifact" /\ events[2].Type = "artifact"
    /\ events[1].Blob.ok /\ events[2].Blob.ok
    /\ events[1].Blob.body.ID = events[2].Blob.body.ID
    /\ events[1].GitopsHashes.list # << >>
    /\ Len(remote) = Len(events[1].GitopsHashes.list)
    /\ loc.gitopsEvents # << >>
    /\ Last(loc.gitopsEvents).Status = Success
    /\ Last(loc.gitopsEvents).GitopsRef = NoSha
    /\ call.kind = "deploy"
    /\ "Commit" \notin Elems(call.ops)

(***************************************************************************)
(* The policy engine on its own: a call of deployTrigger or cleanupTrigger *)
(* with arguments from the sets below.  loc holds the arguments and, once  *)
(* the call has returned, the result.                                      *)
(***************************************************************************)
GitEvents == {"push", "tag", "pr"}

VersionBranches == {Empty, main, dev}

VersionTags == {Empty, <<"v", "1">>, <<"w">>}

PolicyBranches ==
    {Empty, main, <<"!">> \o main, <<"m", "*">>, <<"!", "d", "?", "v">>, <<"[">>}

PolicyTags == {Empty, <<"v", "1">>, <<"!", "v", "1">>, <<"v", "*">>, <<"!", "v", "*">>}

PolicyEvents == {Nil} \cup GitEvents

ArtifactsToCheck ==
    {[NoArtifact EXCEPT !.Version = Version("r1", b, t, e)] :
        b \in VersionBranches, t \in VersionTags, e \in GitEvents}

DeployPolicies ==
    {NilDeploy} \cup {Policy(b, t, e) : b \in PolicyBranches, t \in PolicyTags, e \in PolicyEvents}

CleanupPolicies ==
    {NilCleanup} \cup {CleanupPolicy(a, b) : a \in {Empty, <<"a">>}, b \in PolicyBranches}

TriggerInit ==
    /\ events = << >>
    /\ reposWithCleanupPolicy = << >>
    /\ remote = << >>
    /\ cache = 0
    /\ invalidated = FALSE
    /\ storeErrors = 0
    /\ batch = << >>
    /\ bi = 0
    /\ event = NoEvent
    /\ msgs = << >>
    /\ upd = NoUpdate
    /\ call = NoCall
    /\ runs = << >>
    /\ \/ /\ pc = "deployTrigger"
          /\ loc \in {[artifactToCheck |-> a, deployPolicy |-> p, returned |-> FALSE,
                        result |-> ""] : a \in ArtifactsToCheck, p \in DeployPolicies}
       \/ /\ pc = "cleanupTrigger"
          /\ loc \in {[branch |-> b, cleanupPolicy |-> p, returned |-> FALSE,
                        result |-> ""] : b \in VersionBranches, p \in CleanupPolicies}

deployTriggerCall ==
    /\ pc = "deployTrigger"
    /\ ~loc.returned
    /\ loc' = [loc EXCEPT !.returned = TRUE,
                           !.result = deployTrigger(loc.artifactToCheck, loc.deployPolicy)]
    /\ UNCHANGED <<storeVars, repoVars, pc, batch, bi, event, msgs, upd, runs>>

cleanupTriggerCall ==
    /\ pc = "cleanupTrigger"
    /\ ~loc.returned
    /\ loc' = [loc EXCEPT !.returned = TRUE,
                           !.result = cleanupTrigger(loc.branch, loc.cleanupPolicy)]
    /\ UNCHANGED <<storeVars, repoVars, pc, batch, bi, event, msgs, upd, runs>>

TriggerNext == deployTriggerCall \/ cleanupTriggerCall

TriggerSpec == TriggerInit /\ [][TriggerNext]_vars

\* a call of deployTrigger has returned
DeployTriggerReturned == pc = "deployTrigger" /\ loc.returned

\* C11: deployTrigger returns false for a nil policy and for a policy that
\* sets neither branch nor tag nor event, whatever the artifact.
C11_NilOrUnsetPolicyNeverTriggers ==
    DeployTriggerReturned =>
        LET p == loc.deployPolicy
        IN  (p.IsNil \/ (p.Branch = Empty /\ p.Tag = Empty /\ p.Event = Nil)) =>
                loc.result = "false"

\* a policy that is set but sets nothing got false for an artifact with a
\* branch, a tag and an event
C11_Witness ==
    /\ DeployTriggerReturned
    /\ ~loc.deployPolicy.IsNil
    /\ loc.deployPolicy.Branch = Empty /\ loc.deployPolicy.Tag = Empty
    /\ loc.deployPolicy.Event = Nil
    /\ loc.artifactToCheck.Version.Branch = main
    /\ loc.artifactToCheck.Version.Tag # Empty
    /\ loc.result = "false"

\* C12: deployTrigger returns false for a policy that sets branch with an
\* event other than push or pr (or none), and for a policy that sets tag with
\* an event other than tag (or none); so a policy that sets branch and tag
\* never triggers.
C12_EventKindMustFitPolicy ==
    DeployTriggerReturned =>
        LET p == loc.deployPolicy
        IN  /\ (~p.IsNil /\ p.Branch # Empty /\ p.Event \notin {"push", "pr"}) =>
                    loc.result = "false"
            /\ (~p.IsNil /\ p.Tag # Empty /\ p.Event # "tag") => loc.result = "false"
            /\ (~p.IsNil /\ p.Branch # Empty /\ p.Tag # Empty) => loc.result = "false"

\* a policy with a branch that matches the artifact, and no event: false
C12_Witness ==
    /\ DeployTriggerReturned
    /\ loc.deployPolicy.Branch = main
    /\ loc.deployPolicy.Tag = Empty
    /\ loc.deployPolicy.Event = Nil
    /\ loc.artifactToCheck.Version.Branch = main
    /\ loc.result = "false"

\* the pattern of a policy string without its "!", and whether it has one
Negated(pattern) == HasPrefix(pattern, "!")

Stripped(pattern) == IF Negated(pattern) THEN StripFirst(pattern) ELSE pattern

\* the stripped pattern equals or glob-matches the string
Matches(pattern, str) == Stripped(pattern) = str \/ GlobMatch(Stripped(pattern), str)

\* C13: for a policy with tag set and event tag, a negated policy whose
\* stripped pattern equals or glob-matches the artifact's tag gets false, and
\* a policy that is not negated and does not match gets false, whatever the
\* artifact's tag.
C13_TagPolicyMatchesStrippedPattern ==
    (/\ DeployTriggerReturned
     /\ ~loc.deployPolicy.IsNil
     /\ loc.deployPolicy.Tag # Empty
     /\ loc.deployPolicy.Event = "tag") =>
        LET p == loc.deployPolicy
            match == Matches(p.Tag, loc.artifactToCheck.Version.Tag)
        IN  /\ (Negated(p.Tag) /\ match) => loc.result = "false"
            /\ (~Negated(p.Tag) /\ ~match) => loc.result = "false"

\* C14: for a policy with branch set, no tag and a pattern that compiles, deployTrigger
\* returns true exactly when negate differs from match, match being that the
\* stripped pattern equals or glob-matches the artifact's branch, and the
\* policy's event is the artifact's event; so with push on both sides main
\* triggers for main, !main does not trigger for main and triggers for dev.
C14_BranchPolicyNegateXorMatch ==
    (/\ DeployTriggerReturned
     /\ ~loc.deployPolicy.IsNil
     /\ loc.deployPolicy.Branch # Empty
     /\ loc.deployPolicy.Tag = Empty
     /\ GlobCompiles(Stripped(loc.deployPolicy.Branch))) =>
        LET p == loc.deployPolicy
            v == loc.artifactToCheck.Version
            match == Matches(p.Branch, v.Branch)
        IN  /\ loc.result \in {"true", "false"}
            /\ loc.result = "true" <=>
                  /\ Negated(p.Branch) # match
                  /\ p.Event \in {"push", "pr"}
                  /\ p.Event = v.Event
            /\ (p.Event = "push" /\ v.Event = "push" /\ p.Branch = main /\ v.Branch = main) =>
                  loc.result = "true"
            /\ (p.Event = "push" /\ v.Event = "push" /\ p.Branch = <<"!">> \o main) =>
                  /\ v.Branch = main => loc.result = "false"
                  /\ v.Branch = dev => loc.result = "true"

\* the policy !main with push triggered for an artifact of branch dev
C14_Witness ==
    /\ DeployTriggerReturned
    /\ loc.deployPolicy.Branch = <<"!">> \o main
    /\ loc.deployPolicy.Tag = Empty
    /\ loc.deployPolicy.Event = "push"
    /\ loc.artifactToCheck.Version.Branch = dev
    /\ loc.artifactToCheck.Version.Event = "push"
    /\ loc.result = "true"

\* C15: cleanupTrigger returns true exactly when the policy is not nil, its
\* branch and app are set, and negate differs from match, match being that
\* the stripped pattern equals or glob-matches the deleted branch; so !main
\* does not trigger for the deleted branch main.
C15_CleanupNegateXorMatch ==
    (/\ pc = "cleanupTrigger"
     /\ loc.returned
     /\ GlobCompiles(loc.cleanupPolicy.Branch)) =>
        LET p == loc.cleanupPolicy
        IN  loc.result = "true" <=>
               /\ ~p.IsNil
               /\ p.Branch # Empty
               /\ p.AppToCleanup # Empty
               /\ Negated(p.Branch) # Matches(p.Branch, loc.branch)

\* the branch-deletion handler is at a manifest whose cleanup policy triggers
\* and whose directory <env>/<app>/ is not in the working copy
CleanupOfAbsentDir ==
    /\ pc = "processBranchDeletedEvent"
    /\ loc.idx >= 1
    /\ loc.idx <= Len(loc.request.Manifests)
    /\ LET env == loc.request.Manifests[loc.idx]
           rc == CleanupResolveVars(env.Cleanup, [BRANCH |-> loc.request.Branch])
       IN  /\ ~env.Cleanup.IsNil
           /\ rc.err = Nil
           /\ cleanupTrigger(loc.request.Branch, rc.c) = "true"
           /\ DirAt(WorkingCopy, env.Env, rc.c.AppToCleanup) = << >>

\* C16: when the directory to clean up is not in the repository and the
\* delete returns without error, the handler goes on to the next manifest
\* with no delete event, no commit, no push and no cache invalidation; and
\* an event whose handler returned no delete event and no error gets no
\* notification and no hash and is written as processed.
C16_AbsentDirProducesNoEvent ==
    [][/\ (CleanupOfAbsentDir /\ loc' # loc /\ pc' = "processBranchDeletedEvent") =>
             /\ loc'.idx = loc.idx + 1
             /\ loc'.deleteEvents = loc.deleteEvents
             /\ remote' = remote
             /\ invalidated' = invalidated
             /\ call'.kind = "delete"
             /\ {"Commit", "Push", "Invalidate"} \cap Elems(call'.ops) = {}
       /\ (/\ pc = "processEvent"
           /\ pc' = "loop"
           /\ event.Type = "branchDeleted"
           /\ loc.err = Nil
           /\ loc.deleteEvents = << >>) =>
             /\ msgs' = << >>
             /\ event'.GitopsHashes.list = << >>
             /\ event'.Status = StatusProcessed]_vars

\* a branch-deleted event with a policy that triggers for a directory that
\* is not there has been processed without any delete event
C16_Witness ==
    /\ pc = "loop"
    /\ upd.called /\ upd.ok
    /\ event.Type = "branchDeleted"
    /\ events[event.ID].Blob.ok
    /\ \E i \in 1..Len(loc.request.Manifests) :
          /\ ~loc.request.Manifests[i].Cleanup.IsNil
          /\ cleanupTrigger(loc.request.Branch, loc.request.Manifests[i].Cleanup) = "true"
          /\ DirAt(remote, loc.request.Manifests[i].Env,
                   loc.request.Manifests[i].Cleanup.AppToCleanup) = << >>
    /\ loc.err = Nil
    /\ loc.deleteEvents = << >>
    /\ msgs = << >>
    /\ events[event.ID].Status = StatusProcessed
    /\ events[event.ID].GitopsHashes.list = << >>
    /\ Len(remote) = 4

(***************************************************************************)
(* The rollback algorithm on its own: the repository grows by deploys and  *)
(* deletes of two applications and by rollbacks to any commit it holds.    *)
(* The cache is fresh and no external step fails.  loc holds the request,  *)
(* the head recorded before and the result of the last rollback.           *)
(***************************************************************************)
HistoryApps == {<<"a">>, <<"b">>}

HistoryFiles == {<< <<"x">> >>, << <<"y">> >>}

HistoryEnv == <<"s">>

NoRollback ==
    [request |-> RollbackRequest(HistoryEnv, Empty, NoSha, ""), headSha |-> NoSha,
     returned |-> FALSE, err |-> Nil, rollbackEvent |-> NilRollbackEvent]

HistoryInit ==
    /\ events = << >>
    /\ reposWithCleanupPolicy = << >>
    /\ remote = << >>
    /\ cache = 0
    /\ invalidated = FALSE
    /\ storeErrors = 0
    /\ pc = "history"
    /\ batch = << >>
    /\ bi = 0
    /\ event = NoEvent
    /\ loc = NoRollback
    /\ msgs = << >>
    /\ upd = NoUpdate
    /\ call = NoCall
    /\ runs = << >>

\* a deploy that changes the directory of an application
HistoryDeploy(app, files) ==
    /\ Len(remote) < MaxHistory
    /\ LET w == CommitFilesToGit(remote, files, HistoryEnv, app, nextSha)
       IN  /\ w.sha # NoSha
           /\ remote' = w.h
    /\ cache' = Len(remote')
    /\ loc' = NoRollback
    /\ UNCHANGED <<storeVars, invalidated, call, pc, batch, bi, event, msgs, upd, runs>>

\* a cleanup that deletes the directory of an application
HistoryDelete(app) ==
    /\ Len(remote) < MaxHistory
    /\ LET r == cloneTemplateDeleteAndPush(CleanupPolicy(app, main), HistoryEnv, "policy",
                                           DeleteEvent(HistoryEnv, app, "policy", Success, "",
                                                       NoSha),
                                           "none")
       IN  /\ r.remote # remote
           /\ remote' = r.remote
    /\ cache' = Len(remote')
    /\ loc' = NoRollback
    /\ UNCHANGED <<storeVars, invalidated, call, pc, batch, bi, event, msgs, upd, runs>>

\* processRollbackEvent from repo.Head on, for a request that parsed
HistoryRollback(app, targetSHA) ==
    /\ Len(remote) < MaxHistory + 1
    /\ LET headSha == Head2(WorkingCopy)
           rv == revertTo(HistoryEnv, app, WorkingCopy, targetSHA, nextSha, FALSE)
           req == RollbackRequest(HistoryEnv, app, targetSHA, "alice")
       IN  IF rv.err # Nil
           THEN /\ loc' = [request |-> req, headSha |-> headSha, returned |-> TRUE,
                           err |-> rv.err,
                           rollbackEvent |-> RollbackEvent(Failure, rv.err, << >>)]
                /\ UNCHANGED remote
           ELSE /\ loc' = [request |-> req, headSha |-> headSha, returned |-> TRUE,
                           err |-> Nil,
                           rollbackEvent |->
                              RollbackEvent(Success, "", shasSince(rv.h, headSha))]
                /\ remote' = rv.h
    /\ cache' = Len(remote')
    /\ UNCHANGED <<storeVars, invalidated, call, pc, batch, bi, event, msgs, upd, runs>>

HistoryNext ==
    \/ \E app \in HistoryApps, files \in HistoryFiles : HistoryDeploy(app, files)
    \/ \E app \in HistoryApps : HistoryDelete(app)
    \/ \E app \in HistoryApps, targetSHA \in 1..Len(remote) : HistoryRollback(app, targetSHA)

RollbackSpec == HistoryInit /\ [][HistoryNext]_vars

\* the last step was a rollback that returned without error
RolledBack == loc.returned /\ loc.err = Nil

\* the history the last rollback started from
HistoryBefore == SubSeq(remote, 1, loc.headSha)

\* the commit with hash targetSHA touches the path of the request
TargetOnPath ==
    /\ loc.request.TargetSHA \in 1..Len(HistoryBefore)
    /\ remote[loc.request.TargetSHA].env = loc.request.Env
    /\ remote[loc.request.TargetSHA].app = loc.request.App

\* C17: after a successful rollback to a targetSHA that touches the path,
\* the content of <env>/<app>/ at the new head is its content at targetSHA
C17_RollbackRestoresTarget ==
    (RolledBack /\ TargetOnPath)
    => DirAt(remote, loc.request.Env, loc.request.App)
         = DirAt(SubSeq(remote, 1, loc.request.TargetSHA), loc.request.Env, loc.request.App)

\* the hashes of the commits the last rollback reverted, in the order in
\* which it reverted them
Reverted ==
    [i \in 1..(Len(remote) - loc.headSha) |-> remote[loc.headSha + i].reverts]

\* the commits of the history before the rollback that touch the path of the
\* request, are newer than the commit with hash since, are not rollback
\* commits and have not been reverted
Due(since) ==
    {sha \in (since + 1)..Len(HistoryBefore) :
        /\ remote[sha].env = loc.request.Env
        /\ remote[sha].app = loc.request.App
        /\ ~RollbackCommit(remote[sha])
        /\ ~HasBeenReverted(HistoryBefore, remote[sha], loc.request.Env, loc.request.App)}

NewestFirst(shas) == \A i, j \in 1..Len(shas) : i < j => shas[i] > shas[j]

NewestFirstAfter(h, n) == [i \in 1..(Len(h) - n) |-> h[Len(h) + 1 - i].sha]

\* C19: a rollback that returns no error returns as GitopsRefs the hashes of
\* the commits it pushed, newest first, each of them the revert of another
\* commit that was there before, and processEvent records exactly these as
\* the event's gitopsHashes.
C19_HashesAreTheNewCommits ==
    [][/\ (pc = "processRollbackEvent" /\ pc' = "processEvent" /\ loc'.err = Nil)
          => /\ IsPrefix(remote, remote')
             /\ loc'.rollbackEvent.GitopsRefs = NewestFirstAfter(remote', Len(remote))
             /\ \A i \in (Len(remote) + 1)..Len(remote') :
                   /\ RollbackCommit(remote'[i])
                   /\ remote'[i].reverts \in 1..Len(remote)
                   /\ \A j \in (Len(remote) + 1)..Len(remote') :
                         remote'[j].reverts = remote'[i].reverts => j = i
       /\ (pc = "processEvent" /\ pc' = "loop" /\ event.Type = "rollback" /\ loc.err = Nil)
          => /\ event'.GitopsHashes.list = loc.rollbackEvent.GitopsRefs
             /\ upd'.ok => events'[event.ID].GitopsHashes.list = loc.rollbackEvent.GitopsRefs
      ]_vars

\* a rollback that reverted two commits was processed and stored
C19_Witness ==
    /\ ProcessingOver
    /\ event.Type = "rollback"
    /\ loc.err = Nil
    /\ upd.ok
    /\ Len(events[event.ID].GitopsHashes.list) = 2
    /\ events[event.ID].GitopsHashes.list = NewestFirstAfter(remote, Len(remote) - 2)

\* a handler step that ran template-write-push up to the push
C20Push ==
    /\ pc \in {"processArtifactEvent", "processReleaseEvent"}
    /\ Len(loc'.gitopsEvents) = Len(loc.gitopsEvents) + 1
    /\ "Push" \in Elems(call'.ops)

Min(a, b) == IF a < b THEN a ELSE b

\* C20 as stated: a push is attempted at most 5 times in total
C20_AtMostFiveAttempts == [][C20Push => call'.attempts <= PushMaxRetries]_vars

\* C20: a push is attempted once and again after each of up to PushMaxRetries
\* failures, 6 times in total at most, and never again after an attempt that
\* succeeded; when every attempt fails the deploy event is a Failure with
\* the push error and without ref, the handler returns the error, the
\* remote is as it was and the cache is not invalidated; no empty ref is
\* ever recorded on the event.
C20_PushRetriedUpToMaxRetries ==
    [][/\ C20Push
          => LET e == Last(loc'.gitopsEvents)
             IN  /\ call'.attempts <= PushMaxRetries + 1
                 /\ call'.attempts = Min(call'.fails, PushMaxRetries) + 1
                 /\ e.Status = Failure <=> call'.fails > PushMaxRetries
                 /\ e.Status = Failure
                    => /\ e.StatusDesc = "push failed"
                       /\ e.GitopsRef = NoSha
                       /\ loc'.returned /\ loc'.err = "push failed"
                       /\ remote' = remote
                       /\ invalidated' = invalidated
                       /\ "Invalidate" \notin Elems(call'.ops)
                 /\ e.Status # Failure
                    => /\ e.Status = Success
                       /\ e.GitopsRef = Last(remote').sha
                       /\ remote' = Append(remote, Last(remote'))
                       /\ invalidated'
       /\ (pc = "processEvent" /\ pc' = "loop")
          => NoSha \notin Elems(event'.GitopsHashes.list)
      ]_vars

\* a push on a fresh cache failed on every attempt and the handler returned
C20_Witness ==
    /\ pc = "processEvent"
    /\ call.kind = "deploy"
    /\ call.base = Len(remote)
    /\ call.fails = PushMaxRetries + 1
    /\ call.attempts = PushMaxRetries + 1
    /\ Last(loc.gitopsEvents).Status = Failure
    /\ loc.err = "push failed"

\* the positions of op in the operations of a run
PositionsOf(op, ops) == {i \in 1..Len(ops) : ops[i] = op}

\* the operation of a run that writes its commits
WriteOp(kind) == IF kind = "rollback" THEN "revertTo" ELSE "Commit"

\* the operations of the last run are in order: the write, the push, the
\* invalidation, the last only once and only straight after the push
OrderedRun(c) ==
    /\ Cardinality(PositionsOf("Invalidate", c.ops)) <= 1
    /\ \A i \in PositionsOf("Invalidate", c.ops) :
          /\ i > 1
          /\ c.ops[i - 1] = "Push"
          /\ c.attempts >= 1
    /\ \A i \in PositionsOf("Push", c.ops) :
          \E j \in PositionsOf(WriteOp(c.kind), c.ops) : j < i

\* C21: in the deploy, delete and rollback handlers the write comes before
\* the push and the push before the invalidation of the cache; a run marks
\* the cache invalid only after its push succeeded and only once, and a run
\* whose push failed leaves the cache flag and the remote as they were.
C21_WritePushInvalidateOrdered ==
    [][/\ OrderedRun(call')
       /\ (invalidated' /\ ~invalidated)
          => /\ "Invalidate" \in Elems(call'.ops)
             /\ call'.kind = "rollback" \/ remote' # remote
             /\ loc'.err # "push failed"
       /\ (loc'.returned /\ ~loc.returned /\ loc'.err = "push failed")
          => /\ "Push" \in Elems(call'.ops)
             /\ "Invalidate" \notin Elems(call'.ops)
             /\ invalidated' = invalidated
             /\ remote' = remote
      ]_vars

\* a delete run wrote, pushed and invalidated the cache
C21_Witness ==
    /\ call.kind = "delete"
    /\ "Invalidate" \in Elems(call.ops)
    /\ invalidated
    /\ Last(remote).kind = "delete"

\* the temporary working copies that exist after the first k operations of a run
Live(ops, k) ==
    Cardinality({i \in 1..k : ops[i] = "InstanceForWrite"})
      - Cardinality({i \in 1..k : ops[i] = "TmpFsCleanup"})

\* C22: a run that obtained a working copy with InstanceForWrite has removed
\* it when it returns, with or without an error; during a run there is at
\* most one working copy, and there is none once the handler has returned.
C22_WorkingCopiesRemoved ==
    /\ \A k \in 0..Len(call.ops) : Live(call.ops, k) \in {0, 1}
    /\ Live(call.ops, Len(call.ops)) = 0
    /\ call.kind # "" => call.ops[1] = "InstanceForWrite" /\ Last(call.ops) = "TmpFsCleanup"
    /\ pc \notin HandlerPcs => Live(call.ops, Len(call.ops)) = 0

\* a run failed after it had obtained its working copy, and removed it
C22_Witness ==
    /\ pc = "processEvent"
    /\ loc.err # Nil
    /\ call.kind \in {"deploy", "delete", "rollback"}
    /\ Len(call.ops) >= 3
    /\ Last(call.ops) = "TmpFsCleanup"

(***************************************************************************)
(* The commit-status provider of the notifications: github.post and        *)
(* statusExists, against the statuses GitHub holds for one SHA, newest     *)
(* first.  Other clients of the repository write statuses too.  loc holds  *)
(* GitHub's list and what the last post did.                               *)
(***************************************************************************)
\* the statuses of one SHA that are looked at
MaxStatuses == 3

\* ListOptions{PerPage: 50}
PerPage == 50

RepoStatus(context, state, description) ==
    [Context |-> context, State |-> state, Description |-> description]

RepoStatuses ==
    {RepoStatus(c, st, d) : c \in {"gitops/s", "ci"}, st \in {"success", "failure"},
                            d \in {"d1", "d2"}}

\* a variant of statusExists that looks for the tuple in the whole list
RECURSIVE statusExistsAnywhere(_, _)
statusExistsAnywhere(statuses, status) ==
    IF statuses = << >> THEN FALSE
    ELSE IF Head(statuses) = status THEN TRUE
    ELSE statusExistsAnywhere(Tail(statuses), status)

\* statusExists: the first listed status with the context decides
RECURSIVE statusExists(_, _)
statusExists(statuses, status) ==
    IF statuses = << >> THEN FALSE
    ELSE IF Head(statuses).Context = status.Context
    THEN Head(statuses).State = status.State
         /\ Head(statuses).Description = status.Description
    ELSE statusExists(Tail(statuses), status)

\* Repositories.ListStatuses: the first page
ListStatuses(all) == SubSeq(all, 1, IF Len(all) < PerPage THEN Len(all) ELSE PerPage)

NoPost ==
    [status |-> RepoStatus("", "", ""), listed |-> << >>, returned |-> FALSE,
     wrote |-> FALSE, err |-> Nil]

StatusInit ==
    /\ events = << >>
    /\ reposWithCleanupPolicy = << >>
    /\ remote = << >>
    /\ cache = 0
    /\ invalidated = FALSE
    /\ storeErrors = 0
    /\ pc = "statuses"
    /\ batch = << >>
    /\ bi = 0
    /\ event = NoEvent
    /\ loc = [statuses |-> << >>, last |-> NoPost]
    /\ msgs = << >>
    /\ upd = NoUpdate
    /\ call = NoCall
    /\ runs = << >>

StatusUnchanged ==
    UNCHANGED <<storeVars, repoVars, pc, batch, bi, event, msgs, upd, runs>>

\* another client of the repository creates a status
otherStatus(status) ==
    /\ Len(loc.statuses) < MaxStatuses
    /\ loc' = [statuses |-> <<status>> \o loc.statuses, last |-> NoPost]
    /\ StatusUnchanged

\* github.post; listFails and createFails are the failures of the two requests
post(status, listFails, createFails) ==
    /\ Len(loc.statuses) < MaxStatuses
    /\ LET statuses == ListStatuses(loc.statuses)
           done(wrote, err) ==
               [status |-> status, listed |-> statuses, returned |-> TRUE,
                wrote |-> wrote, err |-> err]
       IN  IF listFails
           THEN loc' = [loc EXCEPT !.last = done(FALSE, "could not list commit statuses")]
           ELSE IF statusExists(statuses, status)
           THEN loc' = [loc EXCEPT !.last = done(FALSE, Nil)]
           ELSE IF createFails
           THEN loc' = [loc EXCEPT !.last = done(TRUE, "could not create commit status")]
           ELSE loc' = [statuses |-> <<status>> \o loc.statuses, last |-> done(TRUE, Nil)]
    /\ StatusUnchanged

StatusNext ==
    \/ \E status \in RepoStatuses : otherStatus(status)
    \/ \E status \in RepoStatuses, listFails \in BOOLEAN, createFails \in BOOLEAN :
          post(status, listFails, createFails)

StatusSpec == StatusInit /\ [][StatusNext]_vars

\* the last step was a post whose list request succeeded
Posted == loc.last.returned /\ loc.last.err # "could not list commit statuses"

\* the first listed status with the context of the posted one is identical to it
NewestOfContextIdentical ==
    LET l == loc.last.listed
        same == {i \in 1..Len(l) : l[i].Context = loc.last.status.Context}
    IN  /\ same # {}
        /\ \A i \in same : (\A j \in same : i <= j) => l[i] = loc.last.status

\* C23 as stated: a status is written if and only if no listed status is
\* identical to it
C23_WritesIffNoIdenticalStatus ==
    Posted => (loc.last.wrote <=> ~\E i \in 1..Len(loc.last.listed) :
                                      loc.last.listed[i] = loc.last.status)

\* C23: when the statuses were listed, a status is written if and only if
\* the first listed status with its context, the newest one, is not
\* identical to it or no listed status has its context; when they could
\* not be listed nothing is written.
C23_WritesIffNewestOfContextDiffers ==
    /\ Posted => (loc.last.wrote <=> ~NewestOfContextIdentical)
    /\ (loc.last.returned /\ ~Posted) => ~loc.last.wrote

\* the posted tuple is listed, behind a newer status of the same context
\* that differs, and it was written again
C23_Witness ==
    /\ Posted
    /\ loc.last.wrote
    /\ \E i \in 1..Len(loc.last.listed) : loc.last.listed[i] = loc.last.status

(***************************************************************************)
(* The persisted list reposWithCleanupPolicy under the artifacts that are  *)
(* processed: processArtifactEvent up to its loop, for artifacts of three  *)
(* repositories, with and without a cleanup policy, and with the store     *)
(* failing to load or to save the list.  loc holds the last call.          *)
(***************************************************************************)
RepositoryNames == {"r1", "r2", "r3"}

NoKeep ==
    [before |-> << >>, repo |-> "", hasCleanupPolicy |-> FALSE, loadErr |-> FALSE,
     saveErr |-> FALSE, returned |-> FALSE]

ReposInit ==
    /\ events = << >>
    /\ reposWithCleanupPolicy = << >>
    /\ remote = << >>
    /\ cache = 0
    /\ invalidated = FALSE
    /\ storeErrors = 0
    /\ pc = "repos"
    /\ batch = << >>
    /\ bi = 0
    /\ event = NoEvent
    /\ loc = NoKeep
    /\ msgs = << >>
    /\ upd = NoUpdate
    /\ call = NoCall
    /\ runs = << >>

\* processArtifactEvent for an artifact that parses, up to the loop over
\* its environments
processArtifact(repo, hasCleanupPolicy, loadErr, saveErr) ==
    /\ reposWithCleanupPolicy' =
          IF hasCleanupPolicy
          THEN keepReposWithCleanupPolicyUpToDate(reposWithCleanupPolicy, repo,
                                                  loadErr, saveErr)
          ELSE reposWithCleanupPolicy
    /\ loc' = [before |-> reposWithCleanupPolicy, repo |-> repo,
               hasCleanupPolicy |-> hasCleanupPolicy,
               loadErr |-> hasCleanupPolicy /\ loadErr,
               saveErr |-> hasCleanupPolicy /\ saveErr, returned |-> TRUE]
    /\ UNCHANGED <<events, storeErrors, repoVars, pc, batch, bi, event, msgs, upd, runs>>

ReposNext ==
    \E repo \in RepositoryNames, hasCleanupPolicy \in BOOLEAN,
       loadErr \in BOOLEAN, saveErr \in BOOLEAN :
          processArtifact(repo, hasCleanupPolicy, loadErr, saveErr)

ReposSpec == ReposInit /\ [][ReposNext]_vars

NoDuplicates(q) == \A i, j \in 1..Len(q) : q[i] = q[j] => i = j

\* C24: after an artifact with a cleanup policy was processed the persisted
\* list holds every repository it held before and the artifact's
\* repositoryName (when the list could be saved), without duplicates, also
\* when the list could not be loaded; an artifact without a cleanup policy
\* leaves the list as it was.
C24_ReposOnlyGrow ==
    loc.returned
    => /\ NoDuplicates(reposWithCleanupPolicy)
       /\ loc.hasCleanupPolicy /\ ~loc.saveErr
          => Elems(reposWithCleanupPolicy) = Elems(loc.before) \cup {loc.repo}
       /\ ~loc.hasCleanupPolicy => reposWithCleanupPolicy = loc.before

(***************************************************************************)
(* Manifest.ResolveVars on its own: the manifest and the variables are     *)
(* drawn from sets that hold every kind of template, and the call is       *)
(* applied once.  loc holds the manifest before and after and the error.   *)
(***************************************************************************)
Templates ==
    {<<"a">>, <<"a", BranchToken>>, <<TagToken>>, <<"a", BadToken>>, <<FailToken>>}

TemplateVars ==
    {<< >>, [BRANCH |-> dev], [BRANCH |-> dev, TAG |-> <<"1">>],
     [BRANCH |-> dev, TAG |-> <<"i", Quote, "s">>]}

TemplateCleanups ==
    {NilCleanup, CleanupPolicy(<<"a">>, main), CleanupPolicy(<<"a", BranchToken>>, dev)}

TemplateManifests ==
    {Manifest(app, <<"s">>, NilDeploy, cleanup, PlainChart, values) :
        app \in Templates, cleanup \in TemplateCleanups, values \in Templates}

ResolveInit ==
    /\ events = << >>
    /\ reposWithCleanupPolicy = << >>
    /\ remote = << >>
    /\ cache = 0
    /\ invalidated = FALSE
    /\ storeErrors = 0
    /\ pc = "ResolveVars"
    /\ batch = << >>
    /\ bi = 0
    /\ event = NoEvent
    /\ \E m \in TemplateManifests, v \in TemplateVars :
          loc = [before |-> m, vars |-> v, m |-> m, err |-> Nil, returned |-> FALSE]
    /\ msgs = << >>
    /\ upd = NoUpdate
    /\ call = NoCall
    /\ runs = << >>

\* env.ResolveVars(vars)
ResolveVarsCall ==
    /\ pc = "ResolveVars"
    /\ ~loc.returned
    /\ LET r == ManifestResolveVars(loc.m, loc.vars)
       IN  loc' = [loc EXCEPT !.m = r.m, !.err = r.err, !.returned = TRUE]
    /\ UNCHANGED <<storeVars, repoVars, pc, batch, bi, event, msgs, upd, runs>>

ResolveNext == ResolveVarsCall

ResolveSpec == ResolveInit /\ [][ResolveNext]_vars

\* C25: when Manifest.ResolveVars has returned, with or without an error,
\* the manifest's cleanup block is the block it had before the call.
C25_CleanupPreserved == loc.returned => loc.m.Cleanup = loc.before.Cleanup

\* Cleanup is lost exactly on the template errors of a manifest that has a
\* cleanup block
CleanupLostOnTemplateErrors ==
    loc.returned
    => (loc.m.Cleanup # loc.before.Cleanup
        <=> /\ ~loc.before.Cleanup.IsNil
            /\ loc.err \in {"template: function not defined", "template: error calling fail"})

(***************************************************************************)
(* sanitizeDNSName.  A string is a sequence of characters; the inputs are  *)
(* a short head, a run of letters that reaches up to and past the limit    *)
(* of a label, and a short tail, so that the cut falls on every kind of    *)
(* character.  loc holds the input and the result.                         *)
(***************************************************************************)
\* the longest tail of an input
MaxTail == 3

\* str[0:63]
LabelLen == 63

Chars == {"a", "Z", "0", "-", "_"}

ToLower(ch) == IF ch = "Z" THEN "z" ELSE ch

\* [0-9a-z]
LowerAlnum(ch) == ch \in {"a", "z", "0"}

\* regexp [^0-9a-z]+ replaced by "-": every run of other characters becomes one "-"
RECURSIVE ReplaceRuns(_, _)
ReplaceRuns(str, inRun) ==
    IF str = << >> THEN << >>
    ELSE IF LowerAlnum(Head(str)) THEN <<Head(str)>> \o ReplaceRuns(Tail(str), FALSE)
    ELSE IF inRun THEN ReplaceRuns(Tail(str), TRUE)
    ELSE <<"-">> \o ReplaceRuns(Tail(str), TRUE)

Truncate(str) == IF Len(str) > LabelLen THEN SubSeq(str, 1, LabelLen) ELSE str

\* strings.TrimSuffix(str, "-")
TrimSuffix(str) ==
    IF str # << >> /\ str[Len(str)] = "-" THEN SubSeq(str, 1, Len(str) - 1) ELSE str

\* strings.TrimPrefix(str, "-")
TrimPrefix(str) == IF str # << >> /\ Head(str) = "-" THEN Tail(str) ELSE str

\* a variant of sanitizeDNSName that trims before it truncates
sanitizeDNSNameTrimFirst(str) ==
    Truncate(TrimPrefix(TrimSuffix(ReplaceRuns([i \in 1..Len(str) |-> ToLower(str[i])],
                                               FALSE))))

sanitizeDNSName(str) ==
    TrimPrefix(TrimSuffix(Truncate(ReplaceRuns([i \in 1..Len(str) |-> ToLower(str[i])],
                                               FALSE))))

RECURSIVE StringsUpTo(_)
StringsUpTo(n) ==
    IF n = 0 THEN {<< >>}
    ELSE LET shorter == StringsUpTo(n - 1)
         IN  shorter \cup {Append(str, ch) : str \in shorter, ch \in Chars}

Letters(n) == [i \in 1..n |-> "a"]

SanitizeInputs ==
    {head \o Letters(n) \o tail :
        head \in {<< >>, <<"-">>, <<"_", "-">>, <<"Z">>},
        n \in {0} \cup ((LabelLen - 4)..(LabelLen + 1)),
        tail \in StringsUpTo(MaxTail)}

SanitizeInit ==
    /\ events = << >>
    /\ reposWithCleanupPolicy = << >>
    /\ remote = << >>
    /\ cache = 0
    /\ invalidated = FALSE
    /\ storeErrors = 0
    /\ pc = "sanitizeDNSName"
    /\ batch = << >>
    /\ bi = 0
    /\ event = NoEvent
    /\ \E str \in SanitizeInputs : loc = [str |-> str, returned |-> FALSE, result |-> << >>]
    /\ msgs = << >>
    /\ upd = NoUpdate
    /\ call = NoCall
    /\ runs = << >>

sanitizeDNSNameCall ==
    /\ pc = "sanitizeDNSName"
    /\ ~loc.returned
    /\ loc' = [loc EXCEPT !.returned = TRUE, !.result = sanitizeDNSName(loc.str)]
    /\ UNCHANGED <<storeVars, repoVars, pc, batch, bi, event, msgs, upd, runs>>

SanitizeNext == sanitizeDNSNameCall

SanitizeSpec == SanitizeInit /\ [][SanitizeNext]_vars

\* C26: the result of sanitizeDNSName is at most 63 characters long, holds
\* only characters of [a-z0-9-], and neither starts nor ends with "-".
C26_SanitizedIsDNSLabel ==
    loc.returned
    => LET out == loc.result
       IN  /\ Len(out) <= LabelLen
           /\ \A i \in 1..Len(out) : LowerAlnum(out[i]) \/ out[i] = "-"
           /\ out # << >> => out[1] # "-" /\ out[Len(out)] # "-"

\* the cut at 63 fell right after a "-", which was trimmed
C26_Witness ==
    /\ loc.returned
    /\ Len(loc.str) > LabelLen
    /\ Len(loc.result) = LabelLen - 1
    /\ ~LowerAlnum(ToLower(loc.str[LabelLen]))
    /\ loc.str[1] = "Z"

\* C27: the gitops hashes that processEvent hands to updateEvent are a list,
\* empty when the event produced no hash, and never nil, which json.Marshal
\* writes as null.
C27_HashesPassedAsArray ==
    (ProcessingOver /\ upd.called) => ~event.GitopsHashes.IsNil

NonEmptyRef(sha) == sha # NoSha

\* a step of the artifact or release handler: the loop goes forward through
\* artifact.Environments, and an event it appends is the one of the
\* environment at the loop's position
C28Call ==
    (pc \in {"processArtifactEvent", "processReleaseEvent"} /\ pc' # "panic" /\ loc' # loc)
    => /\ loc'.idx >= loc.idx
       /\ IsPrefix(loc.gitopsEvents, loc'.gitopsEvents)
       /\ Len(loc'.gitopsEvents) <= Len(loc.gitopsEvents) + 1
       /\ Len(loc'.gitopsEvents) = Len(loc.gitopsEvents) + 1
          => /\ loc.idx \in 1..Len(loc.artifact.Environments)
             /\ Last(loc'.gitopsEvents).Env = loc.artifact.Environments[loc.idx].Env
             /\ loc'.returned \/ loc'.idx = loc.idx + 1

\* processEvent after the artifact or release handler: one notification per
\* returned event and one hash per non-empty ref, both in the order of the
\* returned events
C28Tail ==
    (pc = "processEvent" /\ pc' = "loop" /\ event.Type \in {"artifact", "release"})
    => LET n == Len(loc.gitopsEvents)
       IN  /\ Len(msgs') = Len(msgs) + n
           /\ \A i \in 1..n :
                 /\ msgs'[Len(msgs) + i].kind = "deploy"
                 /\ msgs'[Len(msgs) + i].GitopsRefs = <<loc.gitopsEvents[i].GitopsRef>>
                 /\ msgs'[Len(msgs) + i].Status = loc.gitopsEvents[i].Status
           /\ event'.GitopsHashes.list
                = event.GitopsHashes.list \o SelectSeq(Refs(loc.gitopsEvents), NonEmptyRef)

\* C28: the event's gitops hashes are the non-empty refs of the environments
\* in the order in which they were processed, the order of
\* artifact.Environments, and the notifications go out in that order too.
C28_HashesInEnvironmentOrder == [][C28Call /\ C28Tail]_vars

\* two environments were pushed one after the other: two hashes, the first
\* environment's first
C28_Witness ==
    /\ pc = "loop"
    /\ event.Type \in {"artifact", "release"}
    /\ Len(loc.gitopsEvents) = 2
    /\ loc.gitopsEvents[1].GitopsRef # NoSha
    /\ event.GitopsHashes.list = <<loc.gitopsEvents[1].GitopsRef, loc.gitopsEvents[2].GitopsRef>>
    /\ loc.gitopsEvents[1].GitopsRef < loc.gitopsEvents[2].GitopsRef

\* the release event whose handler runs or has returned, with a request
\* that parsed
ReleaseRequested == event.Type = "release" /\ events[event.ID].Blob.ok

\* the artifact the request names, as stored
RequestedArtifact ==
    events[StoreArtifact(events, events[event.ID].Blob.body.ArtifactID)].Blob.body

\* the environment is one the request asks for: its env is the request's
\* and, when the request names an app, its app after ResolveVars is that app
Requested(request, artifact, env) ==
    /\ env.Env = request.Env
    /\ request.App # Empty
       => ManifestResolveVars(env, ArtifactVars(artifact)).m.App = request.App

RequestedEnvs(request, artifact) ==
    {i \in 1..Len(artifact.Environments) :
        Requested(request, artifact, artifact.Environments[i])}

\* C29 as stated: when processReleaseEvent has returned for an artifact that
\* was found, template-write-push has run for exactly the requested
\* environments
C29_RunsForExactlyTheRequestedEnvs ==
    (ReleaseRequested /\ pc = "processEvent" /\ loc.err # "cannot find artifact")
    => Len(loc.gitopsEvents)
         = Cardinality(RequestedEnvs(events[event.ID].Blob.body, RequestedArtifact))

\* one iteration of the loop of processReleaseEvent
C29Env ==
    (pc = "processReleaseEvent" /\ loc.idx \in 1..Len(loc.artifact.Environments)
       /\ loc' # loc)
    => LET env == loc.artifact.Environments[loc.idx]
           ran == Len(loc'.gitopsEvents) = Len(loc.gitopsEvents) + 1
           e == Last(loc'.gitopsEvents)
       IN  /\ ran <=> Requested(loc.request, loc.artifact, env)
           /\ ~ran => /\ loc'.gitopsEvents = loc.gitopsEvents
                      /\ remote' = remote
                      /\ ~loc'.returned
           /\ ran => /\ e.TriggeredBy = loc.request.TriggeredBy
                     /\ e.Env = loc.request.Env
                     /\ e.ArtifactID = loc.request.ArtifactID
                     /\ loc.request.App # Empty => e.App = loc.request.App
                     /\ loc'.returned <=> e.Status = Failure
           /\ ~loc'.returned => loc'.idx = loc.idx + 1

\* the first step of processReleaseEvent and processEvent's last, for a
\* request whose artifact is not in the store
C29NotFound ==
    /\ (pc = "processReleaseEvent" /\ loc.idx = 0 /\ loc' # loc /\ ReleaseRequested
          /\ StoreArtifact(events, events[event.ID].Blob.body.ArtifactID) = 0)
       => /\ loc'.returned
          /\ loc'.err = "cannot find artifact"
          /\ loc'.gitopsEvents = << >>
          /\ remote' = remote
    /\ (pc = "processEvent" /\ pc' = "loop" /\ ReleaseRequested
          /\ loc.err = "cannot find artifact")
       => /\ event'.Status = StatusError
          /\ event'.GitopsHashes.list = << >>
          /\ msgs' = msgs
          /\ upd'.ok => events'[event.ID].Status = StatusError

\* C29: processReleaseEvent goes through the environments of the artifact in
\* order and runs template-write-push, with the request's triggeredBy, for
\* each requested one, until one run fails or the environments are
\* exhausted; it runs it for no other environment; when the artifact is not
\* found nothing is written and the event's status is error.
C29_RunsForRequestedEnvsUntilFailure ==
    [][/\ C29Env
       /\ C29NotFound
       /\ (pc = "processReleaseEvent" /\ pc' = "processEvent" /\ loc'.err = Nil)
          => Len(loc'.gitopsEvents)
               = Cardinality(RequestedEnvs(events[event.ID].Blob.body, RequestedArtifact))
      ]_vars

\* a release of one app of an environment that holds two ran for that app only
C29_Witness ==
    /\ ReleaseRequested
    /\ pc = "processEvent"
    /\ loc.err = Nil
    /\ loc.request.App # Empty
    /\ Len(loc.gitopsEvents) = 1
    /\ loc.gitopsEvents[1].App = loc.request.App
    /\ loc.gitopsEvents[1].TriggeredBy = "alice"
    /\ Cardinality({i \in 1..Len(RequestedArtifact.Environments) :
                      RequestedArtifact.Environments[i].Env = loc.request.Env}) = 2

\* the steps of the worker's goroutine
WorkerNext ==
    \/ RunPoll
    \/ RunNext
    \/ processArtifactEventParse
    \/ processArtifactEventEnv
    \/ processReleaseEventParse
    \/ processReleaseEventEnv
    \/ processRollbackEvent
    \/ processBranchDeletedEventParse
    \/ processBranchDeletedEventEnv
    \/ processEventTail
    \/ processEventNilRollback

\* the worker's goroutine keeps running, and a poll succeeds in the end
FairSpec == Spec /\ WF_vars(WorkerNext)

\* an event of the store that is new and was never dispatched
Waiting(id) ==
    IF id \in 1..Len(events) THEN events[id].Status = StatusNew /\ runs[id] = 0 ELSE FALSE

\* the event was handed to processEvent
Dispatched(id) == IF id \in 1..Len(runs) THEN runs[id] > 0 ELSE FALSE

\* a failed poll dispatches nothing and writes nothing, and the worker polls again
PollErrorOnlySleeps ==
    [][(pc = "Run" /\ storeErrors' # storeErrors)
       => /\ pc' = "Run"
          /\ UNCHANGED <<events, runs, upd, event, batch, remote>>]_vars

\* every new event is dispatched in the end, unless the worker has panicked
DispatchedUnlessPanic ==
    \A id \in 1..MaxEvents : Waiting(id) ~> (Dispatched(id) \/ pc = "panic")

\* C30: no state is reached in which the worker has stopped for good while
\* an event with status new was never dispatched (the finite form of: every
\* event with status new is eventually dispatched).
C30_NewEventsAreDispatched == ~(pc = "panic" /\ \E id \in 1..Len(events) : Waiting(id))

(***************************************************************************)
(* Artifact.Vars as a function of the artifact: the context and the items  *)
(* are drawn from small sets, and the one action is the call.              *)
(***************************************************************************)
MaxItems == 2

VarKeys == {"K1", "K2"}

VarStrings == {<<"1">>, <<"2">>}

\* the values of an items map: strings, and one value of another type
ItemValues ==
    [IsString : {TRUE}, Val : VarStrings] \cup {[IsString |-> FALSE, Val |-> <<"n">>]}

MapsOver(values) == UNION {[ks -> values] : ks \in SUBSET VarKeys}

VarContexts == MapsOver(VarStrings)

VarItems == UNION {[1..n -> MapsOver(ItemValues)] : n \in 0..MaxItems}

VarArtifacts ==
    {[NoArtifact EXCEPT !.Context = ctx, !.Items = items] :
        ctx \in VarContexts, items \in VarItems}

VarsInit ==
    /\ events = << >>
    /\ reposWithCleanupPolicy = << >>
    /\ remote = << >>
    /\ cache = 0
    /\ invalidated = FALSE
    /\ storeErrors = 0
    /\ pc = "Vars"
    /\ batch = << >>
    /\ bi = 0
    /\ event = NoEvent
    /\ \E a \in VarArtifacts :
          loc = [before |-> a, a |-> a, returned |-> FALSE, result |-> << >>]
    /\ msgs = << >>
    /\ upd = NoUpdate
    /\ call = NoCall
    /\ runs = << >>

\* artifact.Vars(): the receiver is only read
VarsCall ==
    /\ pc = "Vars"
    /\ ~loc.returned
    /\ loc' = [loc EXCEPT !.returned = TRUE, !.result = ArtifactVars(loc.a)]
    /\ UNCHANGED <<storeVars, repoVars, pc, batch, bi, event, msgs, upd, runs>>

VarsNext == VarsCall

VarsSpec == VarsInit /\ [][VarsNext]_vars

\* the items maps that hold a string value under key k
StringAt(items, k) ==
    {i \in 1..Len(items) : k \in DOMAIN items[i] /\ items[i][k].IsString}

LastStringAt(items, k) ==
    CHOOSE i \in StringAt(items, k) : \A j \in StringAt(items, k) : j <= i

\* C31: Artifact.Vars() returns every context entry, overlaid by every
\* string-typed value of every items map: a key with a string value in some
\* items map has the value of the last such map, any other key of the context
\* has its context value, and no other key is present, so that a non-string
\* value neither appears nor removes or alters a key; the artifact is unchanged.
C31_VarsOverlayStringItems ==
    loc.returned
    => LET a == loc.before
           out == loc.result
       IN  /\ loc.a = a
           /\ DOMAIN out =
                 DOMAIN a.Context \cup {k \in VarKeys : StringAt(a.Items, k) # {}}
           /\ \A k \in DOMAIN out :
                 out[k] = IF StringAt(a.Items, k) # {}
                          THEN a.Items[LastStringAt(a.Items, k)][k].Val
                          ELSE a.Context[k]

\* a later item overrides an earlier one and the context, and a non-string
\* value of the last item leaves the key of the context as it was
C31_Witness ==
    /\ loc.returned
    /\ Len(loc.before.Items) = 2
    /\ "K1" \in DOMAIN loc.before.Context
    /\ StringAt(loc.before.Items, "K1") = {1, 2}
    /\ loc.before.Items[1]["K1"].Val # loc.before.Items[2]["K1"].Val
    /\ loc.before.Context["K1"] # loc.before.Items[2]["K1"].Val
    /\ "K2" \in DOMAIN loc.before.Context
    /\ "K2" \in DOMAIN loc.before.Items[2]
    /\ ~loc.before.Items[2]["K2"].IsString
    /\ StringAt(loc.before.Items, "K2") = {}
    /\ loc.result["K2"] = loc.before.Context["K2"]

\* sha is the hash of a commit of the GitOps remote
Pushed(sha) == sha \in 1..Len(remote) /\ remote[sha].sha = sha

AllPushed(shas) == \A i \in 1..Len(shas) : Pushed(shas[i])

\* a deploy or delete event returned by a clone...AndPush call
RefOnlyAfterPush(ev) ==
    /\ ev.GitopsRef # NoSha => ev.Status = Success /\ Pushed(ev.GitopsRef)
    /\ ev.Status = Failure => ev.GitopsRef = NoSha

\* C32: every SHA recorded in an event's gitopsHashes, in the store and on
\* the event being processed, is a commit of the GitOps remote; a deploy or
\* delete event carries a ref only with Status Success and a pushed commit, a
\* rollback event carries refs only with Status Success and pushed commits,
\* and the event of a call that failed before or during its push carries none.
C32_RecordedHashesWerePushed ==
    /\ \A id \in 1..Len(events) : AllPushed(events[id].GitopsHashes.list)
    /\ AllPushed(event.GitopsHashes.list)
    /\ \A i \in 1..Len(loc.gitopsEvents) : RefOnlyAfterPush(loc.gitopsEvents[i])
    /\ \A i \in 1..Len(loc.deleteEvents) : RefOnlyAfterPush(loc.deleteEvents[i])
    /\ AllPushed(loc.rollbackEvent.GitopsRefs)
    /\ loc.rollbackEvent.GitopsRefs # << >> => loc.rollbackEvent.Status = Success
    /\ (pc \in HandlerPcs \cup {"processEvent"} /\ loc.err # Nil /\ call.kind = "deploy")
       => /\ "Invalidate" \notin Elems(call.ops)
          /\ Last(loc.gitopsEvents).GitopsRef = NoSha

\* an artifact event whose first environment was pushed and whose second
\* failed in its push: one hash is stored, of the pushed commit
C32_Witness ==
    /\ pc = "loop"
    /\ upd.ok
    /\ loc.err = "push failed"
    /\ Len(loc.gitopsEvents) = 2
    /\ loc.gitopsEvents[1].GitopsRef # NoSha
    /\ events[event.ID].GitopsHashes.list = <<loc.gitopsEvents[1].GitopsRef>>
    /\ Pushed(loc.gitopsEvents[1].GitopsRef)

\* template-write-push has failed for an environment of the artifact or
\* release event in hand
EnvFailed ==
    /\ event.Type \in {"artifact", "release"}
    /\ \E i \in 1..Len(loc.gitopsEvents) : loc.gitopsEvents[i].Status = Failure

\* the refs of the deploy events that carry one
RefsOf(evs) == SelectSeq([i \in 1..Len(evs) |-> evs[i].GitopsRef], LAMBDA sha : sha # NoSha)

\* a step of the worker on the event in hand after an environment failed
C33Step ==
    (/\ EnvFailed
     /\ runs' = runs
     /\ event'.ID = event.ID
     /\ <<pc, loc, msgs, event, remote, call>>' # <<pc, loc, msgs, event, remote, call>>)
    => /\ loc.returned /\ loc.err # Nil
       /\ Last(loc.gitopsEvents).Status = Failure
       /\ \A i \in 1..(Len(loc.gitopsEvents) - 1) : loc.gitopsEvents[i].Status = Success
       /\ Len(loc.gitopsEvents) <= loc.idx
       /\ loc' = loc
       /\ remote' = remote
       /\ call' \in {call, NoCall}
       /\ msgs' \in {msgs, msgs \o [i \in 1..Len(loc.gitopsEvents) |->
                                       MessageFromGitOpsEvent(loc.gitopsEvents[i])]}
       /\ Len(msgs') <= Len(loc.gitopsEvents)
       /\ event'.GitopsHashes.list
             \in {event.GitopsHashes.list,
                  event.GitopsHashes.list \o RefsOf(loc.gitopsEvents)}

\* C33: in artifact and release handling, once template-write-push has
\* failed for an environment, the handler has returned with the failed run
\* as its last, and while the event is in hand no write instance is
\* obtained, the remote gets no commit, no deploy event is added, the
\* notifications are those of the environments run so far and the recorded
\* hashes are theirs.
C33_NoEnvironmentAfterAFailedOne == [][C33Step]_vars

\* a release of a whole environment of two apps, whose first app failed
\* after its working copy was obtained: the event is over with one
\* notification and no hash
C33_Witness ==
    /\ ReleaseRequested
    /\ pc = "loop"
    /\ EnvFailed
    /\ loc.request.App = Empty
    /\ Cardinality(RequestedEnvs(loc.request, RequestedArtifact)) = 2
    /\ loc.idx < Len(loc.artifact.Environments)
    /\ Len(loc.gitopsEvents) = 1
    /\ Len(msgs) = 1
    /\ msgs[1].Status = Failure
    /\ event.GitopsHashes.list = << >>

\* updateEvent failed: processEvent only logs, the loop goes on and the row
\* of the event is as it was, with status new
C34Update ==
    (pc = "processEvent" /\ pc' = "loop" /\ ~upd'.ok)
    => /\ events' = events
       /\ events'[event.ID].Status = StatusNew

\* a successful poll returns every event with status new
C34Poll ==
    (pc = "Run" /\ pc' = "loop")
    => \A id \in 1..Len(events) : events[id].Status = StatusNew => id \in Elems(batch')

\* an event that was dispatched before is dispatched as a new one is: to the
\* handler of its type, with the row of the store and nothing of the earlier run
C34Dispatch ==
    (pc = "loop" /\ pc' \in HandlerPcs /\ runs[event'.ID] >= 1)
    => /\ events[event'.ID].Status = StatusNew
       /\ runs'[event'.ID] = runs[event'.ID] + 1
       /\ pc' = HandlerOf(events[event'.ID].Type)
       /\ event'.GitopsHashes = events[event'.ID].GitopsHashes
       /\ loc' = NoLoc
       /\ msgs' = << >>
       /\ upd' = NoUpdate

\* the repeated run broadcasts the notifications of its own result
C34Broadcast ==
    (pc = "processEvent" /\ pc' = "loop" /\ runs[event.ID] >= 2)
    => /\ msgs' = Broadcasts(event.Type, loc)
       /\ upd'.called

\* a template-write-push of the repeated run for an environment whose
\* rendered files the remote holds already
C34Deploy ==
    (/\ pc \in {"processArtifactEvent", "processReleaseEvent"}
     /\ runs[event.ID] >= 2
     /\ Len(loc'.gitopsEvents) = Len(loc.gitopsEvents) + 1)
    => LET m == loc'.artifact.Environments[loc.idx]
       IN  DirAt(remote, m.Env, m.App) = RenderFiles(m)
           => /\ remote' = remote
              /\ Last(loc'.gitopsEvents).GitopsRef = NoSha

\* what holds of a failed status write: the worker goes on with its loop and
\* the event keeps the status new; every successful poll returns the events
\* with status new, so this one too; when it is dispatched again its handler
\* starts as for a new event, and when that handler returns its
\* notifications are broadcast again; a repeated template-write-push adds no
\* commit to the remote for an environment whose files the remote holds.
FailedStatusWriteMeansRerun ==
    [][C34Update /\ C34Poll /\ C34Dispatch /\ C34Broadcast /\ C34Deploy]_vars

\* the status write of an artifact event failed after its deploys were
\* pushed; its second run found nothing to commit, broadcast again and was
\* stored as processed
RerunFoundNothingToCommit ==
    /\ pc = "loop"
    /\ event.Type = "artifact"
    /\ runs[event.ID] = 2
    /\ storeErrors = 1
    /\ upd.ok
    /\ events[event.ID].Status = StatusProcessed
    /\ Len(loc.gitopsEvents) = 2
    /\ \A i \in 1..2 : loc.gitopsEvents[i].Status = Success /\ loc.gitopsEvents[i].GitopsRef = NoSha
    /\ Len(msgs) = 2
    /\ Len(events) = 1
    /\ Len(remote) = 2

\* C34: an event whose status write failed is dispatched again by a later
\* poll, and when the processing of that repeated run is over its handler
\* has run in full: the notifications of its result were broadcast again and
\* the status write was issued again.
C34_RerunBroadcastsAgain ==
    (ProcessingOver /\ runs[event.ID] >= 2)
    => upd.called /\ msgs = Broadcasts(event.Type, loc)

\* C35: in the branch-deletion sequence a call whose step failed returns a
\* delete event with Status Failure and an error, and a delete event with
\* Status Success is returned only for a deletion that was committed and
\* pushed: it carries the hash of a commit of the remote.
C35_DeleteSuccessMeansCommittedAndPushed ==
    event.Type = "branchDeleted"
    => /\ \A i \in 1..Len(loc.deleteEvents) :
             loc.deleteEvents[i].Status = Success
             => /\ loc.deleteEvents[i].GitopsRef # NoSha
                /\ Pushed(loc.deleteEvents[i].GitopsRef)
       /\ (call.kind = "delete" /\ "Commit" \in Elems(call.ops)
             /\ "Invalidate" \notin Elems(call.ops))
          => loc.err # Nil /\ Last(loc.deleteEvents).Status = Failure

\* the last step was a rollback to a targetSHA that no commit touching the
\* path of the request has
TargetMissed == loc.returned /\ ~TargetOnPath

\* C36: a rollback whose targetSHA does not occur among the commits touching
\* <env>/<app>/ does not fail: it reverts every commit touching the path
\* that is not a rollback commit and has not been reverted, adds one revert
\* commit of the path for each and nothing else, and its rollback event has
\* Status Success and as GitopsRefs the hashes of the revert commits created.
C36_MissingTargetRevertsWholePath ==
    TargetMissed
    => /\ loc.err = Nil
       /\ loc.rollbackEvent.Status = Success
       /\ Elems(Reverted) = Due(NoSha)
       /\ Len(Reverted) = Cardinality(Due(NoSha))
       /\ \A sha \in (loc.headSha + 1)..Len(remote) :
             /\ RollbackCommit(remote[sha])
             /\ remote[sha].env = loc.request.Env
             /\ remote[sha].app = loc.request.App
       /\ loc.rollbackEvent.GitopsRefs = NewestFirstAfter(remote, loc.headSha)

\* a rollback of s/a to a commit of s/b: both commits of s/a are reverted,
\* the one older than the target too, and the directory is gone
C36_Witness ==
    /\ TargetMissed
    /\ loc.err = Nil
    /\ loc.request.TargetSHA \in 1..Len(HistoryBefore)
    /\ remote[loc.request.TargetSHA].app # loc.request.App
    /\ Len(Reverted) = 2
    /\ \E i \in 1..2 : Reverted[i] < loc.request.TargetSHA
    /\ \E i \in 1..2 : Reverted[i] > loc.request.TargetSHA
    /\ Len(loc.rollbackEvent.GitopsRefs) = 2
    /\ DirAt(remote, loc.request.Env, loc.request.App) = << >>

=============================================================================
